---- MODULE Spec2Model ----
(***************************************************************************)
(* A model of the XSD -> LinkML translation engine: the reference          *)
(* resolver, the choice constraint handler, the slot builder, the type     *)
(* processor, the identity processor and the documentation merger.         *)
(*                                                                         *)
(* Python's None, a missing dict key and the empty string are all falsy    *)
(* in the tests the code makes on names, so one value, NONE, stands for    *)
(* the three.  A Python dict is a function whose DOMAIN is its key set.    *)
(***************************************************************************)
EXTENDS Integers, Sequences, FiniteSets, TLC

VARIABLES
  pc,                         \* the step of the run that comes next
  step,                        \* position of the next declaration in the current pass
  xsd,                        \* the parsed source schema of this run
  classes,                    \* linkml_schema["classes"]
  enums,                      \* linkml_schema["enums"]
  choice_slot_membership,     \* ChoiceConstraintHandler.choice_slot_membership
  choice_repeat_membership,   \* ChoiceConstraintHandler.choice_repeat_membership
  inheritance_map,            \* ReferenceResolver.inheritance_map
  known_class_names,          \* ReferenceResolver.known_class_names
  key_target_map,             \* process_identities' key_target_map
  call                        \* the last operation called, its arguments and its result

vars == <<pc, step, xsd, classes, enums, choice_slot_membership,
          choice_repeat_membership, inheritance_map, known_class_names,
          key_target_map, call>>

NONE == ""

EmptyMap == [x \in {} |-> x]

\* dict.get(key) with NONE for a missing key
Get(map, key) == IF key \in DOMAIN map THEN map[key] ELSE NONE

\* map with map[key] set to value (dict item assignment)
Put(map, key, value) ==
  [k \in DOMAIN map \cup {key} |-> IF k = key THEN value ELSE map[k]]

Range(seq) == {seq[k] : k \in 1..Len(seq)}

\* the member of a set of one: Only({e : x \in {v}}) is e with x standing for v
Only(set) == CHOOSE x \in set : TRUE

NoCall == [op |-> "none"]

(***************************************************************************)
(* Names.  The code tests names with str.endswith and cuts the suffix off  *)
(* with a slice; over the names of the model these are the tables below.   *)
(***************************************************************************)
RefNames == {"ImageRef", "SampleRef"}
IDNames  == {"ImageID", "SampleID"}

\* name.endswith("Ref")
EndsWithRef(name) == name \in RefNames

\* name[:-3] for a name that ends with "Ref"
StripRef(name) ==
  CASE name = "ImageRef"  -> "Image"
    [] name = "SampleRef" -> "Sample"
    [] OTHER -> NONE

\* name.endswith("ID")
EndsWithID(name) == name \in IDNames

\* name[:-2] for a name that ends with "ID"
StripID(name) ==
  CASE name = "ImageID"  -> "Image"
    [] name = "SampleID" -> "Sample"
    [] OTHER -> NONE

(***************************************************************************)
(* Classes of the target model.                                            *)
(***************************************************************************)
\* A description is the list of its lines, empty when the key is missing.
EmptyClass ==
  [description |-> <<>>, is_a |-> NONE, abstract |-> FALSE,
   attributes |-> EmptyMap, exactly_one_of |-> <<>>,
   unique_keys |-> EmptyMap, annotations |-> EmptyMap, in_subset |-> <<>>]

(***************************************************************************)
(* ReferenceResolver                                                       *)
(***************************************************************************)
\* One step up the chain: the class's is_a, else the inheritance map's entry.
BaseOf(cls, imap, current) ==
  LET is_a == IF current \in DOMAIN cls THEN cls[current].is_a ELSE NONE
  IN  IF is_a # NONE THEN is_a ELSE Get(imap, current)

RECURSIVE AncestorWalk(_, _, _, _, _)
\* the loop of select_keyref_range that builds one candidate's ancestors list
AncestorWalk(cls, imap, current, visited, ancestors) ==
  IF current = NONE \/ current \in visited
  THEN ancestors
  ELSE AncestorWalk(cls, imap, BaseOf(cls, imap, current),
                    visited \cup {current}, Append(ancestors, current))

RECURSIVE AncestorLists(_, _, _)
\* target_classes is enumerated in the order of the sequence `order`
AncestorLists(cls, imap, order) ==
  IF order = <<>> THEN <<>>
  ELSE LET cls_name == Head(order)
           rest == AncestorLists(cls, imap, Tail(order))
           ancestors == AncestorWalk(cls, imap, cls_name, {}, <<>>)
       IN  IF cls_name = NONE \/ ancestors = <<>> THEN rest
           ELSE <<ancestors>> \o rest

RECURSIVE IntersectAll(_, _)
IntersectAll(common, lists) ==
  IF lists = <<>> \/ common = {} THEN common
  ELSE IntersectAll(common \cap Range(Head(lists)), Tail(lists))

RECURSIVE FirstIn(_, _)
FirstIn(seq, set) ==
  IF seq = <<>> THEN NONE
  ELSE IF Head(seq) \in set THEN Head(seq) ELSE FirstIn(Tail(seq), set)

RECURSIVE LastIn(_, _)
LastIn(seq, set) ==
  IF seq = <<>> THEN NONE
  ELSE IF seq[Len(seq)] \in set THEN seq[Len(seq)]
       ELSE LastIn(SubSeq(seq, 1, Len(seq) - 1), set)

\* select_keyref_range answering with the head of the first chain, the first
\* candidate enumerated, when the chains share a class
select_keyref_range_first_candidate(cls, imap, order) ==
  IF order = <<>> THEN NONE
  ELSE IF Len(order) = 1 THEN order[1]
  ELSE LET ancestor_lists == AncestorLists(cls, imap, order)
       IN  IF ancestor_lists = <<>> THEN NONE
           ELSE LET common == IntersectAll(Range(ancestor_lists[1]), Tail(ancestor_lists))
                IN  IF common = {} THEN NONE
                    ELSE ancestor_lists[1][1]

\* select_keyref_range reading the first chain from the root end
select_keyref_range_farthest(cls, imap, order) ==
  IF order = <<>> THEN NONE
  ELSE IF Len(order) = 1 THEN order[1]
  ELSE LET ancestor_lists == AncestorLists(cls, imap, order)
       IN  IF ancestor_lists = <<>> THEN NONE
           ELSE LET common == IntersectAll(Range(ancestor_lists[1]), Tail(ancestor_lists))
                IN  IF common = {} THEN NONE
                    ELSE LastIn(ancestor_lists[1], common)

select_keyref_range(cls, imap, order) ==
  IF order = <<>> THEN NONE
  ELSE IF Len(order) = 1 THEN order[1]
  ELSE LET ancestor_lists == AncestorLists(cls, imap, order)
       IN  IF ancestor_lists = <<>> THEN NONE
           ELSE LET common == IntersectAll(Range(ancestor_lists[1]), Tail(ancestor_lists))
                IN  IF common = {} THEN NONE
                    ELSE FirstIn(ancestor_lists[1], common)

RECURSIVE RefWalk(_, _, _, _, _)
\* the while loop of reference_target_for_class; NONE when it ends without a return
RefWalk(cls, imap, known, current, visited) ==
  IF current = NONE \/ current \in visited THEN NONE
  ELSE LET is_a == IF current \in DOMAIN cls THEN cls[current].is_a ELSE NONE
       IN  IF is_a # NONE /\ EndsWithRef(is_a) /\ StripRef(is_a) \in known
           THEN StripRef(is_a)
           ELSE RefWalk(cls, imap, known,
                        IF is_a # NONE THEN is_a ELSE Get(imap, current),
                        visited \cup {current})

\* reference_target_for_class trying the declared type before the owner's name
reference_target_type_first(cls, imap, known, owner_class, type_name_local) ==
  IF type_name_local # NONE /\ EndsWithID(type_name_local)
     /\ StripID(type_name_local) \in known
  THEN StripID(type_name_local)
  ELSE IF owner_class # NONE /\ EndsWithRef(owner_class)
          /\ StripRef(owner_class) \in known
       THEN StripRef(owner_class)
       ELSE RefWalk(cls, imap, known, owner_class, {})

reference_target_for_class(cls, imap, known, owner_class, type_name_local) ==
  IF owner_class # NONE /\ EndsWithRef(owner_class) /\ StripRef(owner_class) \in known
  THEN StripRef(owner_class)
  ELSE LET walked == RefWalk(cls, imap, known, owner_class, {})
       IN  IF walked # NONE THEN walked
           ELSE IF type_name_local # NONE /\ EndsWithID(type_name_local)
                   /\ StripID(type_name_local) \in known
                THEN StripID(type_name_local)
                ELSE NONE

RECURSIVE class_is_ref_like_from(_, _, _, _)
class_is_ref_like_from(cls, imap, current, visited) ==
  IF current = NONE THEN FALSE
  ELSE IF EndsWithRef(current) \/ current = "Reference" THEN TRUE
  ELSE IF current \in visited THEN FALSE
  ELSE class_is_ref_like_from(cls, imap, BaseOf(cls, imap, current),
                              visited \cup {current})

class_is_ref_like(cls, imap, class_name) ==
  class_is_ref_like_from(cls, imap, class_name, {})

(***************************************************************************)
(* ChoiceConstraintHandler.  A branch is the list of (slot name, required) *)
(* pairs collect_branch_slots returns.  The operators take and return the  *)
(* record M of what the passes write: the classes, the enums and the two   *)
(* membership maps of the handler.                                         *)
(***************************************************************************)
\* {"slot_conditions": {slot_name: {"required": True}}}
SlotExpr(slot_name) == [slot_conditions |-> (slot_name :> [required |-> TRUE])]

\* set(slot for slot, _ in branch)
SlotSet(branch) == {branch[k][1] : k \in 1..Len(branch)}

RECURSIVE AppendMissing(_, _)
\* the loop "if x not in list: list.append(x)" over the items of `items`
AppendMissing(list, items) ==
  IF items = <<>> THEN list
  ELSE AppendMissing(IF Head(items) \in Range(list) THEN list
                     ELSE Append(list, Head(items)), Tail(items))

\* the single slot of every branch, in branch order (all branches are single-slot)
SingleSlots(branches) ==
  [k \in 1..Len(branches) |-> CHOOSE slot \in SlotSet(branches[k]) : TRUE]

\* defaultdict(set)[class_name].update(universe)
UpdateMembership(membership, class_name, universe) ==
  Put(membership, class_name,
      (IF class_name \in DOMAIN membership THEN membership[class_name] ELSE {})
        \cup universe)

\* apply_choice_constraint returning early, with nothing recorded, when a
\* branch has more than one slot
apply_choice_constraint_single_only(m, class_name, branches, repeating) ==
  Only({ (
      IF Len(branches) < 2 THEN M
      ELSE
        LET cls == IF class_name \in DOMAIN M.classes THEN M.classes[class_name]
                   ELSE EmptyClass
            universe == UNION {SlotSet(branches[k]) : k \in 1..Len(branches)}
            single == \A k \in 1..Len(branches) : Cardinality(SlotSet(branches[k])) = 1
            group == AppendMissing(<<>>, SingleSlots(branches))
            exprs == [k \in 1..Len(group) |-> SlotExpr(group[k])]
        IN  IF single
            THEN [M EXCEPT !.classes = Put(M.classes, class_name,
                               [cls EXCEPT !.exactly_one_of =
                                   AppendMissing(cls.exactly_one_of, exprs)]),
                           !.choice_slot_membership =
                               UpdateMembership(M.choice_slot_membership, class_name, universe),
                           !.choice_repeat_membership =
                               IF repeating
                               THEN UpdateMembership(M.choice_repeat_membership, class_name, universe)
                               ELSE M.choice_repeat_membership]
            ELSE [M EXCEPT !.classes = Put(M.classes, class_name, cls)]
    ) : M \in {m} })

\* apply_choice_constraint keeping only the expressions of the choice applied last
apply_choice_constraint_last_group(m, class_name, branches, repeating) ==
  Only({ (
      IF Len(branches) < 2 THEN M
      ELSE
        LET cls == IF class_name \in DOMAIN M.classes THEN M.classes[class_name]
                   ELSE EmptyClass
            universe == UNION {SlotSet(branches[k]) : k \in 1..Len(branches)}
            single == \A k \in 1..Len(branches) : Cardinality(SlotSet(branches[k])) = 1
            group == AppendMissing(<<>>, SingleSlots(branches))
            exprs == [k \in 1..Len(group) |-> SlotExpr(group[k])]
            cls2 == IF single THEN [cls EXCEPT !.exactly_one_of = exprs] ELSE cls
        IN  [M EXCEPT !.classes = Put(M.classes, class_name, cls2),
                      !.choice_slot_membership =
                          UpdateMembership(M.choice_slot_membership, class_name, universe),
                      !.choice_repeat_membership =
                          IF repeating
                          THEN UpdateMembership(M.choice_repeat_membership, class_name, universe)
                          ELSE M.choice_repeat_membership]
    ) : M \in {m} })

\* apply_choice_constraint appending every expression without the membership tests
apply_choice_constraint_no_dedup(m, class_name, branches, repeating) ==
  Only({ (
      IF Len(branches) < 2 THEN M
      ELSE
        LET cls == IF class_name \in DOMAIN M.classes THEN M.classes[class_name]
                   ELSE EmptyClass
            universe == UNION {SlotSet(branches[k]) : k \in 1..Len(branches)}
            single == \A k \in 1..Len(branches) : Cardinality(SlotSet(branches[k])) = 1
            singles == SingleSlots(branches)
            exprs == [k \in 1..Len(singles) |-> SlotExpr(singles[k])]
            cls2 == IF single
                    THEN [cls EXCEPT !.exactly_one_of = cls.exactly_one_of \o exprs]
                    ELSE cls
        IN  [M EXCEPT !.classes = Put(M.classes, class_name, cls2),
                      !.choice_slot_membership =
                          UpdateMembership(M.choice_slot_membership, class_name, universe),
                      !.choice_repeat_membership =
                          IF repeating
                          THEN UpdateMembership(M.choice_repeat_membership, class_name, universe)
                          ELSE M.choice_repeat_membership]
    ) : M \in {m} })

apply_choice_constraint(m, class_name, branches, repeating) ==
  Only({ (
      IF Len(branches) < 2 THEN M
      ELSE
        LET cls == IF class_name \in DOMAIN M.classes THEN M.classes[class_name]
                   ELSE EmptyClass
            universe == UNION {SlotSet(branches[k]) : k \in 1..Len(branches)}
            single == \A k \in 1..Len(branches) : Cardinality(SlotSet(branches[k])) = 1
            group == AppendMissing(<<>>, SingleSlots(branches))
            exprs == [k \in 1..Len(group) |-> SlotExpr(group[k])]
            cls2 == IF single
                    THEN [cls EXCEPT !.exactly_one_of = AppendMissing(cls.exactly_one_of, exprs)]
                    ELSE cls
        IN  [M EXCEPT !.classes = Put(M.classes, class_name, cls2),
                      !.choice_slot_membership =
                          UpdateMembership(M.choice_slot_membership, class_name, universe),
                      !.choice_repeat_membership =
                          IF repeating
                          THEN UpdateMembership(M.choice_repeat_membership, class_name, universe)
                          ELSE M.choice_repeat_membership]
    ) : M \in {m} })

PopRequired(slot) == [slot EXCEPT !.required = FALSE]
SetMultivalued(slot) == [slot EXCEPT !.multivalued = TRUE]

\* a first loop that relaxes only the slots an exactly-one-of expression names
RelaxRequired_named_only(cls_map, membership) ==
  [name \in DOMAIN cls_map |->
     IF name \in DOMAIN membership
     THEN [cls_map[name] EXCEPT !.attributes =
             [slot_name \in DOMAIN cls_map[name].attributes |->
                IF \E k \in 1..Len(cls_map[name].exactly_one_of) :
                     slot_name \in DOMAIN cls_map[name].exactly_one_of[k].slot_conditions
                THEN PopRequired(cls_map[name].attributes[slot_name])
                ELSE cls_map[name].attributes[slot_name]]]
     ELSE cls_map[name]]

\* the first loop of relax_choice_constraints, over choice_slot_membership
RelaxRequired(cls_map, membership) ==
  [name \in DOMAIN cls_map |->
     IF name \in DOMAIN membership
     THEN [cls_map[name] EXCEPT !.attributes =
             [slot_name \in DOMAIN cls_map[name].attributes |->
                IF slot_name \in membership[name]
                THEN PopRequired(cls_map[name].attributes[slot_name])
                ELSE cls_map[name].attributes[slot_name]]]
     ELSE cls_map[name]]

\* a second loop that widens every slot of a class with a repeating choice
RelaxMultivalued_whole_class(cls_map, membership) ==
  [name \in DOMAIN cls_map |->
     IF name \in DOMAIN membership
     THEN [cls_map[name] EXCEPT !.attributes =
             [slot_name \in DOMAIN cls_map[name].attributes |->
                SetMultivalued(cls_map[name].attributes[slot_name])]]
     ELSE cls_map[name]]

\* the second loop of relax_choice_constraints, over choice_repeat_membership
RelaxMultivalued(cls_map, membership) ==
  [name \in DOMAIN cls_map |->
     IF name \in DOMAIN membership
     THEN [cls_map[name] EXCEPT !.attributes =
             [slot_name \in DOMAIN cls_map[name].attributes |->
                IF slot_name \in membership[name]
                THEN SetMultivalued(cls_map[name].attributes[slot_name])
                ELSE cls_map[name].attributes[slot_name]]]
     ELSE cls_map[name]]

relax_choice_constraints(M) ==
  [M EXCEPT !.classes =
     RelaxMultivalued(RelaxRequired(M.classes, M.choice_slot_membership),
                      M.choice_repeat_membership)]

\* the record M of the current state
Model ==
  [classes |-> classes, enums |-> enums,
   choice_slot_membership |-> choice_slot_membership,
   choice_repeat_membership |-> choice_repeat_membership]

\* the state takes the fields of M
Commit(M) ==
  /\ classes' = M.classes
  /\ enums' = M.enums
  /\ choice_slot_membership' = M.choice_slot_membership
  /\ choice_repeat_membership' = M.choice_repeat_membership

(***************************************************************************)
(* Documentation merger.  A text is the list of its lines and a line the   *)
(* list of its tokens: " " (white space), "=", "," and words, a word being *)
(* a run of characters with none of the three in it.                       *)
(***************************************************************************)
TIER_SUBSET_LOOKUP == [w \in {"1", "2", "3"} |->
  CASE w = "1" -> "NBO_Tier1" [] w = "2" -> "NBO_Tier2" [] w = "3" -> "NBO_Tier3"]

RECURSIVE LStrip(_)
LStrip(line) ==
  IF line # <<>> /\ Head(line) = " " THEN LStrip(Tail(line)) ELSE line

RECURSIVE RStrip(_)
RStrip(line) ==
  IF line # <<>> /\ line[Len(line)] = " "
  THEN RStrip(SubSeq(line, 1, Len(line) - 1)) ELSE line

\* str.strip()
Strip(line) == RStrip(LStrip(line))

\* str.lower() of a word
Lower(word) ==
  CASE word = "Description" -> "description"
    [] word = "Tier" -> "tier"
    [] OTHER -> word

LowerAll(text) == [k \in 1..Len(text) |-> Lower(text[k])]

\* the position of the first "=" of a line that has one
FirstEq(line) ==
  CHOOSE k \in 1..Len(line) : line[k] = "=" /\ \A j \in 1..(k - 1) : line[j] # "="

\* metadata[key].append(value), metadata a defaultdict(list) in insertion order
MetaAppend(metadata, key, value) ==
  IF \E k \in 1..Len(metadata) : metadata[k].key = key
  THEN [k \in 1..Len(metadata) |->
          IF metadata[k].key = key
          THEN [metadata[k] EXCEPT !.values = Append(@, value)]
          ELSE metadata[k]]
  ELSE Append(metadata, [key |-> key, values |-> <<value>>])

RECURSIVE SplitLines(_, _, _)
\* the loop of split_doc_metadata over doc_text.splitlines()
SplitLines(lines, description_lines, metadata) ==
  IF lines = <<>>
  THEN [description_lines |-> description_lines, metadata |-> metadata]
  ELSE
    LET line == Strip(Head(lines))
        pos == FirstEq(line)
        key == Strip(SubSeq(line, 1, pos - 1))
        value == Strip(SubSeq(line, pos + 1, Len(line)))
    IN  IF line = <<>> THEN SplitLines(Tail(lines), description_lines, metadata)
        ELSE IF "=" \in Range(line)
        THEN IF key = <<>>
             THEN SplitLines(Tail(lines), Append(description_lines, line), metadata)
             ELSE IF LowerAll(key) = <<"description">>
             THEN SplitLines(Tail(lines), Append(description_lines, value), metadata)
             ELSE SplitLines(Tail(lines), description_lines,
                             MetaAppend(metadata, key, value))
        ELSE SplitLines(Tail(lines), Append(description_lines, line), metadata)

RECURSIVE DropEmptyHead(_)
DropEmptyHead(lines) ==
  IF lines # <<>> /\ Head(lines) = <<>> THEN DropEmptyHead(Tail(lines)) ELSE lines

RECURSIVE DropEmptyTail(_)
DropEmptyTail(lines) ==
  IF lines # <<>> /\ lines[Len(lines)] = <<>>
  THEN DropEmptyTail(SubSeq(lines, 1, Len(lines) - 1)) ELSE lines

\* "\n".join(description_lines).strip(): the lines are stripped already, so the
\* strip takes the empty lines off both ends
JoinStrip(description_lines) == DropEmptyTail(DropEmptyHead(description_lines))

RECURSIVE SplitLinesNoReserved(_, _, _)
\* the loop without the test for the reserved key "description"
SplitLinesNoReserved(lines, description_lines, metadata) ==
  IF lines = <<>>
  THEN [description_lines |-> description_lines, metadata |-> metadata]
  ELSE
    LET line == Strip(Head(lines))
        pos == FirstEq(line)
        key == Strip(SubSeq(line, 1, pos - 1))
        value == Strip(SubSeq(line, pos + 1, Len(line)))
    IN  IF line = <<>> THEN SplitLinesNoReserved(Tail(lines), description_lines, metadata)
        ELSE IF "=" \in Range(line)
        THEN IF key = <<>>
             THEN SplitLinesNoReserved(Tail(lines), Append(description_lines, line),
                                       metadata)
             ELSE SplitLinesNoReserved(Tail(lines), description_lines,
                                       MetaAppend(metadata, key, value))
        ELSE SplitLinesNoReserved(Tail(lines), Append(description_lines, line), metadata)

split_doc_metadata_no_reserved(doc_text) ==
  LET r == SplitLinesNoReserved(doc_text, <<>>, <<>>)
  IN  [description |-> JoinStrip(r.description_lines), metadata |-> r.metadata]

split_doc_metadata(doc_text) ==
  LET r == SplitLines(doc_text, <<>>, <<>>)
  IN  [description |-> JoinStrip(r.description_lines), metadata |-> r.metadata]

IsTierKey(key) == LowerAll(key) = <<"tier">>

RECURSIVE TierValues(_)
\* tier_values: the values of the keys that lower to "tier", in key order
TierValues(metadata) ==
  IF metadata = <<>> THEN <<>>
  ELSE (IF IsTierKey(Head(metadata).key) THEN Head(metadata).values ELSE <<>>)
       \o TierValues(Tail(metadata))

RECURSIVE WithoutTier(_)
\* metadata after the tier keys are popped
WithoutTier(metadata) ==
  IF metadata = <<>> THEN <<>>
  ELSE (IF IsTierKey(Head(metadata).key) THEN <<>> ELSE <<Head(metadata)>>)
       \o WithoutTier(Tail(metadata))

RECURSIVE AddSubsets_always_append(_, _)
\* the subset list without the test "subset_name not in subset_list"
AddSubsets_always_append(subset_list, tokens) ==
  IF tokens = <<>> THEN subset_list
  ELSE LET token == Head(tokens)
           known == token \in DOMAIN TIER_SUBSET_LOOKUP
       IN  AddSubsets_always_append(
             IF known THEN Append(subset_list, TIER_SUBSET_LOOKUP[token])
             ELSE subset_list, Tail(tokens))

RECURSIVE AddSubsets(_, _)
\* for token in raw_value.replace(",", " ").split(): append the looked-up name once
AddSubsets(subset_list, tokens) ==
  IF tokens = <<>> THEN subset_list
  ELSE LET token == Head(tokens)
           known == token \in DOMAIN TIER_SUBSET_LOOKUP
       IN  AddSubsets(IF known /\ TIER_SUBSET_LOOKUP[token] \notin Range(subset_list)
                      THEN Append(subset_list, TIER_SUBSET_LOOKUP[token])
                      ELSE subset_list, Tail(tokens))

RECURSIVE Flatten(_)
Flatten(seqs) == IF seqs = <<>> THEN <<>> ELSE Head(seqs) \o Flatten(Tail(seqs))

\* key.replace(" ", "_")
Underscore(key) == [k \in 1..Len(key) |-> IF key[k] = " " THEN "_" ELSE key[k]]

RECURSIVE AnnotateValues(_, _, _, _)
\* for idx, value in enumerate(values): annotations[ann_key] = {tag, value}
AnnotateValues(annotations, key, values, idx) ==
  IF values = <<>> THEN annotations
  ELSE LET ann_base == Underscore(key)
           ann_key == IF idx = 0 /\ ann_base \notin DOMAIN annotations
                      THEN ann_base
                      ELSE ann_base \o <<"_", ToString(idx)>>
       IN  AnnotateValues(Put(annotations, ann_key,
                              [tag |-> key, value |-> Head(values)]),
                          key, Tail(values), idx + 1)

RECURSIVE AnnotateAll(_, _)
AnnotateAll(annotations, metadata) ==
  IF metadata = <<>> THEN annotations
  ELSE AnnotateAll(AnnotateValues(annotations, Head(metadata).key,
                                  Head(metadata).values, 0),
                   Tail(metadata))

apply_metadata_to_target(target, metadata) ==
  LET tier_values == TierValues(metadata)
      rest == WithoutTier(metadata)
      \* white space and commas separate the tokens of a tier value
      tokens == SelectSeq(Flatten(tier_values), LAMBDA t : t \notin {" ", ","})
  IN  [target EXCEPT
         !.in_subset = AddSubsets(@, tokens),
         !.annotations = AnnotateAll(@, rest)]

apply_doc_metadata(target, doc_value) ==
  Only({ apply_metadata_to_target(IF split.description # <<>>
                                  THEN [target EXCEPT !.description = split.description]
                                  ELSE target,
                                  split.metadata) :
         split \in {split_doc_metadata(doc_value)} })

(***************************************************************************)
(* The resolver on its own: the inheritance data (is_a edges, the          *)
(* auxiliary inheritance map, the known class names) is drawn from every   *)
(* combination over a small universe of names, cycles included, and one    *)
(* query is put to it.  A Python set is enumerated in an order the caller  *)
(* does not control, so a candidate set is given as one of its orders.     *)
(***************************************************************************)
MaxMapEntries == 1

AncestorUniverse == {"Base", "DerivedA", "DerivedB"}
RefUniverse == {"ImageRef", "SampleRef", "Holder"}
KnownChoices == {{}, {"Image"}, {"Image", "Sample"}}
TypeLocalNames == {NONE, "ImageID", "SampleID", "string"}

\* the class maps over `names`: any subset of the names exists, with any is_a
ClassMaps(names) ==
  UNION {[S -> {[EmptyClass EXCEPT !.is_a = p] : p \in names \cup {NONE}}]
         : S \in SUBSET names}

InheritanceMaps(names) ==
  UNION {[S -> names] : S \in {T \in SUBSET names : Cardinality(T) <= MaxMapEntries}}

\* the sequences without repetition over `names`
RECURSIVE Orders(_)
Orders(names) ==
  {<<>>} \cup UNION {{<<n>> \o o : o \in Orders(names \ {n})} : n \in names}

NoSchema == [types |-> <<>>, elements |-> <<>>, identities |-> <<>>]

InitResolver ==
  /\ pc = "resolver"
  /\ step = 0
  /\ xsd = NoSchema
  /\ enums = EmptyMap
  /\ choice_slot_membership = EmptyMap
  /\ choice_repeat_membership = EmptyMap
  /\ key_target_map = EmptyMap
  /\ call = NoCall
  /\ \/ /\ classes \in ClassMaps(AncestorUniverse)
        /\ inheritance_map \in InheritanceMaps(AncestorUniverse)
        /\ known_class_names = {}
     \/ /\ classes \in ClassMaps(RefUniverse)
        /\ inheritance_map \in InheritanceMaps(RefUniverse)
        /\ known_class_names \in KnownChoices

ResolverUniverse ==
  IF DOMAIN classes \cup DOMAIN inheritance_map \subseteq AncestorUniverse
     /\ known_class_names = {}
  THEN AncestorUniverse ELSE RefUniverse

ResolverFrame ==
  UNCHANGED <<pc, step, xsd, classes, enums, choice_slot_membership,
              choice_repeat_membership, inheritance_map, known_class_names,
              key_target_map>>

CallSelectKeyrefRange ==
  /\ pc = "resolver" /\ call = NoCall
  /\ \E order \in Orders(AncestorUniverse) :
       call' = [op |-> "select_keyref_range", order |-> order,
                result |-> select_keyref_range(classes, inheritance_map, order)]
  /\ ResolverFrame

CallReferenceTarget ==
  /\ pc = "resolver" /\ call = NoCall
  /\ \E owner \in RefUniverse, type_name_local \in TypeLocalNames :
       call' = [op |-> "reference_target_for_class", owner_class |-> owner,
                type_name_local |-> type_name_local,
                result |-> reference_target_for_class(classes, inheritance_map,
                              known_class_names, owner, type_name_local)]
  /\ ResolverFrame

CallClassIsRefLike ==
  /\ pc = "resolver" /\ call = NoCall
  /\ \E class_name \in ResolverUniverse \cup {"Reference"} :
       call' = [op |-> "class_is_ref_like", class_name |-> class_name,
                result |-> class_is_ref_like(classes, inheritance_map, class_name)]
  /\ ResolverFrame

NextResolver == CallSelectKeyrefRange \/ CallReferenceTarget \/ CallClassIsRefLike

SpecResolver == InitResolver /\ [][NextResolver]_vars

(***************************************************************************)
(* The inheritance relation as a relation, for stating the claims: the     *)
(* parent of a class and the set of its ancestors-or-self.                 *)
(***************************************************************************)
IsaParent(c) ==
  IF c \in DOMAIN classes /\ classes[c].is_a # NONE THEN classes[c].is_a
  ELSE IF c \in DOMAIN inheritance_map THEN inheritance_map[c] ELSE NONE

RECURSIVE IsaClosure(_)
IsaClosure(S) ==
  LET T == S \cup ({IsaParent(c) : c \in S} \ {NONE})
  IN  IF T = S THEN S ELSE IsaClosure(T)

AncestorsOrSelf(c) == IsaClosure({c})

CommonAncestors(S) == {x \in UNION {AncestorsOrSelf(c) : c \in S} :
                         \A c \in S : x \in AncestorsOrSelf(c)}

\* C4: select_keyref_range returns none for no candidate, the candidate for one,
\* and for two or more the nearest class common to all candidates' ancestor
\* chains (every common ancestor is an ancestor-or-self of the result), none
\* when the chains share no class; {DerivedA, DerivedB} under Base gives Base.
C4_NearestCommonAncestor ==
  call.op = "select_keyref_range" =>
    LET S == Range(call.order)
        r == call.result
    IN  /\ S = {} => r = NONE
        /\ Cardinality(S) = 1 => r \in S
        /\ Cardinality(S) >= 2 =>
             /\ CommonAncestors(S) = {} => r = NONE
             /\ CommonAncestors(S) # {} =>
                  /\ r \in CommonAncestors(S)
                  /\ \A x \in CommonAncestors(S) : x \in AncestorsOrSelf(r)
        /\ ( /\ S = {"DerivedA", "DerivedB"} /\ IsaParent("Base") = NONE
             /\ IsaParent("DerivedA") = "Base" /\ IsaParent("DerivedB") = "Base" )
           => r = "Base"

C4_Witness ==
  /\ call.op = "select_keyref_range"
  /\ call.order = <<"DerivedA", "DerivedB">>
  /\ "Base" \in DOMAIN classes /\ IsaParent("Base") = NONE
  /\ IsaParent("DerivedA") = "Base" /\ IsaParent("DerivedB") = "Base"
  /\ call.result = "Base"

\* the chain the walk follows from a class: each class once, self first
RECURSIVE IsaChain(_, _)
IsaChain(c, seen) ==
  IF c = NONE \/ c \in seen THEN <<>>
  ELSE <<c>> \o IsaChain(IsaParent(c), seen \cup {c})

\* the positions of the chain whose class has an is_a with the reference suffix
\* that, stripped, names a known class
RefHits(chain) ==
  {k \in 1..Len(chain) :
     /\ chain[k] \in DOMAIN classes
     /\ EndsWithRef(classes[chain[k]].is_a)
     /\ StripRef(classes[chain[k]].is_a) \in known_class_names}

ExpectedReferenceTarget(owner, type_name_local) ==
  LET chain == IsaChain(owner, {})
      hits == RefHits(chain)
      first == CHOOSE k \in hits : \A j \in hits : k <= j
  IN  IF EndsWithRef(owner) /\ StripRef(owner) \in known_class_names
      THEN StripRef(owner)
      ELSE IF hits # {} THEN StripRef(classes[chain[first]].is_a)
      ELSE IF EndsWithID(type_name_local) /\ StripID(type_name_local) \in known_class_names
      THEN StripID(type_name_local)
      ELSE NONE

\* C5: reference_target_for_class returns the first success of (1) the owner's
\* name without its reference suffix, (2) the first class on the owner's chain
\* whose is_a carries the suffix and, stripped, names a known class, (3) the
\* declared type's local name without its identifier suffix; none otherwise.
\* ImageRef with no base and no declared type gives Image iff Image is known.
C5_ReferenceTargetOrder ==
  call.op = "reference_target_for_class" =>
    /\ call.result = ExpectedReferenceTarget(call.owner_class, call.type_name_local)
    /\ ( /\ call.owner_class = "ImageRef" /\ call.type_name_local = NONE
         /\ IsaParent("ImageRef") = NONE )
       => call.result = (IF "Image" \in known_class_names THEN "Image" ELSE NONE)

C5_Witness ==
  /\ call.op = "reference_target_for_class"
  /\ call.owner_class = "Holder"
  /\ "Holder" \in DOMAIN classes /\ classes["Holder"].is_a = "SampleRef"
  /\ known_class_names = {"Image"}
  /\ "SampleRef" \in DOMAIN classes /\ classes["SampleRef"].is_a = "ImageRef"
  /\ call.type_name_local = "ImageID"
  /\ call.result = "Image"

(***************************************************************************)
(* The handler on its own: choices are applied to one class, one after     *)
(* the other, with branch lists as extract_choice_branches returns them    *)
(* (no empty branch).                                                      *)
(***************************************************************************)
MaxBranches == 3

BranchChoices ==
  { << <<"A", TRUE>> >>, << <<"B", FALSE>> >>, << <<"C", TRUE>> >>,
    << <<"A", TRUE>>, <<"B", TRUE>> >>, << <<"B", FALSE>>, <<"C", TRUE>> >>,
    << <<"A", TRUE>>, <<"A", FALSE>> >> }

BranchLists == UNION {[1..n -> BranchChoices] : n \in 0..MaxBranches}

\* the choices the class may have collected before the call that is observed
PriorBranchLists ==
  { <<>>,
    << << <<"A", TRUE>> >>, << <<"B", FALSE>> >> >>,
    << << <<"C", TRUE>> >>, << <<"A", TRUE>> >> >>,
    << << <<"A", TRUE>>, <<"B", TRUE>> >>, << <<"C", TRUE>> >> >> }

FreshModel ==
  [classes |-> EmptyMap, enums |-> EmptyMap,
   choice_slot_membership |-> EmptyMap, choice_repeat_membership |-> EmptyMap]

InitChoice ==
  /\ pc = "choice"
  /\ step = 0
  /\ xsd = NoSchema
  /\ enums = EmptyMap
  /\ \E class_exists \in BOOLEAN, prior \in PriorBranchLists, repeating \in BOOLEAN :
       LET M0 == [FreshModel EXCEPT !.classes =
                    IF class_exists THEN "Sample" :> EmptyClass ELSE EmptyMap]
           M1 == apply_choice_constraint(M0, "Sample", prior, repeating)
       IN  /\ classes = M1.classes
           /\ choice_slot_membership = M1.choice_slot_membership
           /\ choice_repeat_membership = M1.choice_repeat_membership
  /\ inheritance_map = EmptyMap
  /\ known_class_names = {}
  /\ key_target_map = EmptyMap
  /\ call = NoCall

CallApplyChoiceConstraint ==
  /\ pc = "choice" /\ call = NoCall
  /\ \E branches \in BranchLists, repeating \in BOOLEAN :
       /\ Commit(apply_choice_constraint(Model, "Sample", branches, repeating))
       /\ call' = [op |-> "apply_choice_constraint", class_name |-> "Sample",
                   branches |-> branches, repeating |-> repeating,
                   before |-> Model]
  /\ UNCHANGED <<pc, step, xsd, inheritance_map, known_class_names, key_target_map>>

NextChoice == CallApplyChoiceConstraint

SpecChoice == InitChoice /\ [][NextChoice]_vars

\* the expression requiring one slot
RequireSlot(slot) == [slot_conditions |-> [s \in {slot} |-> [required |-> TRUE]]]

ExactlyOneOf(class_name) ==
  IF class_name \in DOMAIN classes THEN classes[class_name].exactly_one_of ELSE <<>>

ExactlyOneOfBefore ==
  IF call.class_name \in DOMAIN call.before.classes
  THEN call.before.classes[call.class_name].exactly_one_of ELSE <<>>

BranchSlotNames(branch) == {pair[1] : pair \in Range(branch)}

AllSingleSlot(branches) ==
  /\ Len(branches) >= 2
  /\ \A b \in Range(branches) : Cardinality(BranchSlotNames(b)) = 1

\* C1: after apply_choice_constraint on a choice of two or more branches that
\* each name exactly one slot, the class's exactly-one-of list holds exactly one
\* expression per distinct branch slot, each requiring that slot, next to what
\* it held before; branches {A},{B},{C} on a fresh class give three expressions.
C1_ExactlyOneOfPerBranchSlot ==
  (call.op = "apply_choice_constraint" /\ AllSingleSlot(call.branches)) =>
    LET D == UNION {BranchSlotNames(b) : b \in Range(call.branches)}
        eo == ExactlyOneOf(call.class_name)
    IN  /\ \A s \in D : Cardinality({k \in 1..Len(eo) : eo[k] = RequireSlot(s)}) = 1
        /\ Range(eo) = Range(ExactlyOneOfBefore) \cup {RequireSlot(s) : s \in D}
        /\ ExactlyOneOfBefore = <<>> => Len(eo) = Cardinality(D)
        /\ ( /\ ExactlyOneOfBefore = <<>>
             /\ [k \in 1..Len(call.branches) |-> BranchSlotNames(call.branches[k])]
                  = <<{"A"}, {"B"}, {"C"}>> )
           => eo = <<RequireSlot("A"), RequireSlot("B"), RequireSlot("C")>>

C1_Witness ==
  /\ call.op = "apply_choice_constraint"
  /\ call.branches = << << <<"A", TRUE>> >>, << <<"B", FALSE>> >>, << <<"C", TRUE>> >> >>
  /\ ExactlyOneOfBefore = <<>>
  /\ Len(ExactlyOneOf("Sample")) = 3

(***************************************************************************)
(* The documentation merger on its own: one text is merged into a target    *)
(* that is fresh or has had a text merged into it before.                   *)
(***************************************************************************)
MaxDocLines == 3

LineChoices ==
  { <<"tier", " ", "=", " ", "1">>,
    <<"SomeTag", " ", "=", " ", "foo">>,
    <<"This is the description.">>,
    <<" ", "More", " ", "narrative", " ">>,
    <<"Description", "=", "From", " ", "key">>,
    <<"description", " ", "=">>,
    <<"=", "no", " ", "key">>,
    <<" ">>,
    <<"Tier", "=", "2", ",", "1", " ", "9">>,
    <<"SomeTag", "=", "bar", "=", "baz">>,
    <<"Other", " ", "Tag", "=">> }

DocTexts == UNION {[1..n -> LineChoices] : n \in 0..MaxDocLines}

PriorDocTexts ==
  { <<>>,
    << <<"Old description">>, <<"tier", "=", "1">>, <<"SomeTag", "=", "old">> >> }

InitDoc ==
  /\ pc = "doc"
  /\ step = 0
  /\ xsd = NoSchema
  /\ enums = EmptyMap
  /\ classes \in {"Sample" :> apply_doc_metadata(EmptyClass, prior) : prior \in PriorDocTexts}
  /\ choice_slot_membership = EmptyMap
  /\ choice_repeat_membership = EmptyMap
  /\ inheritance_map = EmptyMap
  /\ known_class_names = {}
  /\ key_target_map = EmptyMap
  /\ call = NoCall

CallApplyDocMetadata ==
  /\ pc = "doc" /\ call = NoCall
  /\ \E doc_value \in DocTexts :
       /\ classes' = [classes EXCEPT !["Sample"] = apply_doc_metadata(@, doc_value)]
       /\ call' = [op |-> "apply_doc_metadata", doc_value |-> doc_value,
                   before |-> classes["Sample"]]
  /\ UNCHANGED <<pc, step, xsd, enums, choice_slot_membership,
                 choice_repeat_membership, inheritance_map, known_class_names,
                 key_target_map>>

NextDoc == CallApplyDocMetadata

SpecDoc == InitDoc /\ [][NextDoc]_vars

(***************************************************************************)
(* What a line of a text is, for stating the claims.                       *)
(***************************************************************************)
Blank(line) == \A k \in 1..Len(line) : line[k] = " "

\* the tokens of `line` from the first to the last that is not white space
Trimmed(line) ==
  LET solid == {k \in 1..Len(line) : line[k] # " "}
  IN  IF solid = {} THEN <<>>
      ELSE SubSeq(line, CHOOSE k \in solid : \A j \in solid : k <= j,
                        CHOOSE k \in solid : \A j \in solid : j <= k)

EqPositions(line) == {k \in 1..Len(line) : line[k] = "="}

LineKey(line) ==
  Trimmed(SubSeq(line, 1, (CHOOSE k \in EqPositions(line) :
                             \A j \in EqPositions(line) : k <= j) - 1))

LineValue(line) ==
  Trimmed(SubSeq(line, (CHOOSE k \in EqPositions(line) :
                          \A j \in EqPositions(line) : k <= j) + 1, Len(line)))

KeyIs(line, word) ==
  /\ EqPositions(line) # {}
  /\ Len(LineKey(line)) = 1
  /\ LineKey(line)[1] \in {word} \cup
       (IF word = "description" THEN {"Description"} ELSE {}) \cup
       (IF word = "tier" THEN {"Tier"} ELSE {})

\* a line "key = value" with a key that is not empty and not "description"
IsMetadataLine(line) ==
  /\ EqPositions(line) # {}
  /\ LineKey(line) # <<>>
  /\ ~KeyIs(line, "description")

IsNarrativeLine(line) == ~Blank(line) /\ ~IsMetadataLine(line)

\* what a narrative line gives the description: the value of a "description"
\* line, the whole line otherwise
NarrativeText(line) ==
  IF KeyIs(line, "description") THEN LineValue(line) ELSE Trimmed(line)

NarrativeOf(doc) ==
  LET keep == SelectSeq(doc, IsNarrativeLine)
  IN  [k \in 1..Len(keep) |-> NarrativeText(keep[k])]

\* the narrative without the empty lines at its two ends
ExpectedDescription(doc) ==
  LET narrative == NarrativeOf(doc)
      full == {k \in 1..Len(narrative) : narrative[k] # <<>>}
  IN  IF full = {} THEN <<>>
      ELSE SubSeq(narrative, CHOOSE k \in full : \A j \in full : k <= j,
                             CHOOSE k \in full : \A j \in full : j <= k)

TierSubsetsOf(doc) ==
  {TIER_SUBSET_LOOKUP[w] :
     w \in {t \in UNION {Range(LineValue(l)) :
                           l \in {m \in Range(doc) : IsMetadataLine(m) /\ KeyIs(m, "tier")}} :
              t \in DOMAIN TIER_SUBSET_LOOKUP}}

AnnotationLinesOf(doc) ==
  {l \in Range(doc) : IsMetadataLine(l) /\ ~KeyIs(l, "tier")}

ExampleDoc ==
  << <<"tier", " ", "=", " ", "1">>, <<"SomeTag", " ", "=", " ", "foo">>,
     <<"This is the description.">> >>

Unbounded == -1

NoType == [kind |-> "none"]
NoContent == [kind |-> "none"]

SimpleType(name, base_type, enumeration, pattern) ==
  [kind |-> "simple", name |-> name, base_type |-> base_type,
   enumeration |-> enumeration, pattern |-> pattern,
   min_value |-> <<>>, max_value |-> <<>>]

\* a built-in type of XML Schema
Builtin(name) == SimpleType(name, NoType, <<>>, NONE)

ComplexType(name, base, attributes, content) ==
  [kind |-> "complex", name |-> name, base |-> base, annotation |-> <<>>,
   attributes |-> attributes, content |-> content]

Attribute(name, use, type) ==
  [name |-> name, use |-> use, type |-> type, annotation |-> <<>>]

\* an element declaration, local (a particle of a group) or global
Element(name, type, min_occurs, max_occurs) ==
  [kind |-> "element", name |-> name, ref |-> NONE, type |-> type,
   min_occurs |-> min_occurs, max_occurs |-> max_occurs, annotation |-> <<>>,
   abstract |-> FALSE, substitution_group |-> NONE, identities |-> <<>>]

\* a particle that refers to the global element of that name
ElementRef(name, min_occurs, max_occurs) ==
  [Element(name, NoType, min_occurs, max_occurs) EXCEPT !.ref = name]

Group(model, min_occurs, max_occurs, items) ==
  [kind |-> "group", model |-> model, min_occurs |-> min_occurs,
   max_occurs |-> max_occurs, items |-> items]

\* the global element declarations of the name
ElementsNamed(name) ==
  SelectSeq(xsd.elements, LAMBDA e : e.name = name)

\* child.type: a referring particle has the type of the element it refers to
ElementType(child) ==
  IF child.ref # NONE
  THEN IF ElementsNamed(child.ref) # <<>> THEN ElementsNamed(child.ref)[1].type
       ELSE NoType
  ELSE child.type

\* XsdGroup.is_pointless: a group that adds nothing to the model of its parent
is_pointless(group, parent) ==
  IF group.items = <<>> THEN TRUE
  ELSE IF group.min_occurs # 1 \/ group.max_occurs # 1 THEN FALSE
  ELSE IF Len(group.items) = 1 THEN TRUE
  ELSE group.model = parent.model

RECURSIVE IterModel(_, _)
\* the items of a group in order, a pointless group replaced by its own items
IterModel(items, parent) ==
  IF items = <<>> THEN <<>>
  ELSE LET item == Head(items)
       IN  (IF item.kind = "group" /\ is_pointless(item, parent)
            THEN IterModel(item.items, item)
            ELSE <<item>>) \o IterModel(Tail(items), parent)

\* XsdGroup.iter_model()
iter_model(group) == IterModel(group.items, group)

RECURSIVE IterElements(_)
\* the element particles of a list of items, those of nested groups included
IterElements(items) ==
  IF items = <<>> THEN <<>>
  ELSE LET item == Head(items)
       IN  (IF item.kind = "group" THEN IterElements(item.items) ELSE <<item>>)
             \o IterElements(Tail(items))

\* XsdGroup.iter_elements()
iter_elements(group) == IterElements(group.items)

(***************************************************************************)
(* utils                                                                   *)
(***************************************************************************)
\* the names of the model with a namespace in braces, and those with a prefix
BraceNames == {"{ome}Image"}
ColonNames == {"ome:Image", "ome:ImageRef", "ome:Sample"}

\* text.split("}")[-1]
AfterBrace(text) ==
  CASE text = "{ome}Image" -> "Image"
    [] OTHER -> text

\* text.split(":")[-1]
AfterColon(text) ==
  CASE text = "ome:Image" -> "Image"
    [] text = "ome:ImageRef" -> "ImageRef"
    [] text = "ome:Sample" -> "Sample"
    [] OTHER -> text

local_name(value) ==
  IF value \in BraceNames THEN AfterBrace(value)
  ELSE IF value \in ColonNames THEN AfterColon(value)
  ELSE value

PRIMITIVE_RANGES ==
  {"string", "integer", "float", "boolean", "date", "time", "datetime", "uri"}

XSD_TO_LINKML_TYPE_MAP ==
  [n \in {"string", "token", "normalizedString", "anyURI", "float", "double",
          "decimal", "integer", "int", "long", "short", "byte",
          "nonNegativeInteger", "positiveInteger", "unsignedLong",
          "unsignedInt", "unsignedShort", "unsignedByte", "boolean", "date",
          "dateTime", "time", "ID", "IDREF", "IDREFS"} |->
     CASE n \in {"string", "token", "normalizedString", "ID", "IDREF", "IDREFS"}
            -> "string"
       [] n = "anyURI" -> "uri"
       [] n \in {"float", "double", "decimal"} -> "float"
       [] n = "boolean" -> "boolean"
       [] n = "date" -> "date"
       [] n = "dateTime" -> "datetime"
       [] n = "time" -> "time"
       [] OTHER -> "integer"]

RECURSIVE map_xsd_primitive(_)
map_xsd_primitive(xsd_type) ==
  IF xsd_type.kind = "none" THEN "string"
  ELSE IF xsd_type.name # NONE
  THEN LET type_name == local_name(xsd_type.name)
       IN  IF type_name \in DOMAIN XSD_TO_LINKML_TYPE_MAP
           THEN XSD_TO_LINKML_TYPE_MAP[type_name]
           ELSE IF xsd_type.base_type.kind # "none"
           THEN map_xsd_primitive(xsd_type.base_type)
           ELSE "string"
  ELSE IF xsd_type.base_type.kind # "none"
  THEN map_xsd_primitive(xsd_type.base_type)
  ELSE "string"

\* re.sub(r"[^A-Za-z0-9_]+", "_", f"Enum_{class_name}_{attr_name}")
sanitize_enum_name(class_name, attr_name) ==
  CASE class_name = "Sample" /\ attr_name = "kind" -> "Enum_Sample_kind"
    [] class_name = "Image" /\ attr_name = "kind" -> "Enum_Image_kind"
    [] class_name = "ImageRef" /\ attr_name = "kind" -> "Enum_ImageRef_kind"
    [] class_name = "Channel" /\ attr_name = "kind" -> "Enum_Channel_kind"
    [] class_name = "Holder" /\ attr_name = "kind" -> "Enum_Holder_kind"
    [] class_name = "Image" /\ attr_name = "id" -> "Enum_Image_id"
    [] class_name = "Image" /\ attr_name = "ID" -> "Enum_Image_ID"
    [] class_name = "Image" /\ attr_name = "ref" -> "Enum_Image_ref"
    [] class_name = "ImageRef" /\ attr_name = "id" -> "Enum_ImageRef_id"
    [] class_name = "ImageRef" /\ attr_name = "ID" -> "Enum_ImageRef_ID"
    [] class_name = "ImageRef" /\ attr_name = "ref" -> "Enum_ImageRef_ref"
    [] class_name = "Holder" /\ attr_name = "id" -> "Enum_Holder_id"
    [] class_name = "Holder" /\ attr_name = "ID" -> "Enum_Holder_ID"
    [] class_name = "Holder" /\ attr_name = "ref" -> "Enum_Holder_ref"

(***************************************************************************)
(* Slots of the target model and the converter's own operations.  The      *)
(* passes thread the record M (Model) through every call.                  *)
(***************************************************************************)
EmptySlot ==
  [range |-> NONE, required |-> FALSE, multivalued |-> FALSE,
   identifier |-> FALSE, pattern |-> NONE, minimum_value |-> <<>>,
   maximum_value |-> <<>>, description |-> <<>>, annotations |-> EmptyMap,
   in_subset |-> <<>>]

\* an ensure_class that makes a new empty class whether or not one exists
ensure_class_reset(m, name, default_description) ==
  [m EXCEPT !.classes =
     Put(@, name, [EmptyClass EXCEPT !.description = default_description])]

\* ensure_class(name, default_description): the existing class or a new empty one
ensure_class(m, name, default_description) ==
  Only({ (
      IF name \in DOMAIN M.classes THEN M
      ELSE [M EXCEPT !.classes =
              Put(@, name, [EmptyClass EXCEPT !.description = default_description])]
    ) : M \in {m} })

\* a slot definition merged into a stored one: a field already set is kept
MergeSlot(old, new) ==
  [range |-> IF old.range # NONE THEN old.range ELSE new.range,
   required |-> old.required \/ new.required,
   multivalued |-> old.multivalued \/ new.multivalued,
   identifier |-> old.identifier \/ new.identifier,
   pattern |-> IF old.pattern # NONE THEN old.pattern ELSE new.pattern,
   minimum_value |-> IF old.minimum_value # <<>> THEN old.minimum_value
                     ELSE new.minimum_value,
   maximum_value |-> IF old.maximum_value # <<>> THEN old.maximum_value
                     ELSE new.maximum_value,
   description |-> IF old.description # <<>> THEN old.description
                   ELSE new.description,
   annotations |-> IF old.annotations # EmptyMap THEN old.annotations
                   ELSE new.annotations,
   in_subset |-> IF old.in_subset # <<>> THEN old.in_subset ELSE new.in_subset]

\* add_attribute(class_name, slot_name, slot_def)
add_attribute(m, class_name, slot_name, slot) ==
  Only({ (
      LET M1 == ensure_class(M, class_name, <<>>)
          attrs == M1.classes[class_name].attributes
          merged == IF slot_name \in DOMAIN attrs
                    THEN MergeSlot(attrs[slot_name], slot_def)
                    ELSE slot_def
      IN  [M1 EXCEPT !.classes[class_name].attributes = Put(attrs, slot_name, merged)]
    ) : M \in {m}, slot_def \in {slot} })

\* add_unique_key(class_name, key_name, slot_names)
add_unique_key(m, class_name, key_name, slot_names) ==
  Only({ (
      LET M1 == ensure_class(M, class_name, <<>>)
      IN  [M1 EXCEPT !.classes[class_name].unique_keys =
             Put(@, key_name, [unique_key_slots |-> slot_names])]
    ) : M \in {m} })

(***************************************************************************)
(* SlotBuilder                                                             *)
(***************************************************************************)
\* attr_name.lower()
LowerName(name) ==
  CASE name \in {"ID", "Id", "id"} -> "id"
    [] OTHER -> name

ensure_enum_for_slot(m, class_name, attr_name, values) ==
  Only({ (
      LET enum_name == sanitize_enum_name(class_name, attr_name)
      IN  [name |-> enum_name,
           M |-> IF enum_name \in DOMAIN M.enums THEN M
                 ELSE [M EXCEPT !.enums =
                         Put(@, enum_name, [permissible_values |-> Range(values)])]]
    ) : M \in {m} })

\* the range of an attribute taken from its declared type alone
AttributeRange_primitive_only(M, owner_class, attr_name_lower, attr_type, type_name_local) ==
  map_xsd_primitive(attr_type)

\* the range an attribute gets before its enumeration is looked at
AttributeRange(M, owner_class, attr_name_lower, attr_type, type_name_local) ==
  LET target_candidate ==
        IF attr_name_lower = "id"
           /\ class_is_ref_like(M.classes, inheritance_map, owner_class)
        THEN reference_target_for_class(M.classes, inheritance_map,
                                        known_class_names, owner_class,
                                        type_name_local)
        ELSE NONE
  IN  IF target_candidate # NONE THEN target_candidate
      ELSE map_xsd_primitive(attr_type)

\* the facets of an attribute with the identifier mark given by the name alone
AttributeFacets_id_by_name(slot, attr_obj, attr_name_lower, type_name_local, enum_name) ==
  LET attr_type == attr_obj.type
      typed == attr_type.kind # "none"
  IN  [slot EXCEPT
         !.range = IF typed /\ attr_type.enumeration # <<>> THEN enum_name ELSE @,
         !.pattern = IF typed THEN attr_type.pattern ELSE @,
         !.minimum_value = IF typed THEN attr_type.min_value ELSE @,
         !.maximum_value = IF typed THEN attr_type.max_value ELSE @,
         !.required = (attr_obj.use = "required"),
         !.identifier = (attr_name_lower = "id")]

\* the enumeration, the facets, the use and the identifier mark of an attribute
AttributeFacets(slot, attr_obj, attr_name_lower, type_name_local, enum_name) ==
  LET attr_type == attr_obj.type
      typed == attr_type.kind # "none"
  IN  [slot EXCEPT
         !.range = IF typed /\ attr_type.enumeration # <<>> THEN enum_name ELSE @,
         !.pattern = IF typed THEN attr_type.pattern ELSE @,
         !.minimum_value = IF typed THEN attr_type.min_value ELSE @,
         !.maximum_value = IF typed THEN attr_type.max_value ELSE @,
         !.required = (attr_obj.use = "required"),
         !.identifier = (attr_name_lower = "id"
                         \/ (type_name_local # NONE /\ EndsWithID(type_name_local)))]

\* the values of the enumeration of an attribute's type
EnumValues(attr_obj) ==
  IF attr_obj.type.kind = "none" THEN <<>> ELSE attr_obj.type.enumeration

\* slot_from_attribute: the slot, and M with the enumeration it may have added
slot_from_attribute(m, owner_class, attr_name, attr_obj) ==
  Only({ (
      LET type_name_local == IF attr_obj.type.kind = "none" THEN NONE
                             ELSE local_name(attr_obj.type.name)
          made == ensure_enum_for_slot(M, owner_class, attr_name, EnumValues(attr_obj))
      IN  [slot |-> AttributeFacets(
                      apply_doc_metadata(
                        [EmptySlot EXCEPT !.range =
                           AttributeRange(M, owner_class, LowerName(attr_name),
                                          attr_obj.type, type_name_local)],
                        attr_obj.annotation),
                      attr_obj, LowerName(attr_name), type_name_local, made.name),
           M |-> IF EnumValues(attr_obj) # <<>> THEN made.M ELSE M]
    ) : M \in {m} })

\* f"Child element {child_name} of {parent_class}"
ChildDescription(child_name, parent_class) ==
  << <<"Child element ", child_name, " of ", parent_class>> >>

\* a child taken as repeating only when its maximum is unbounded
Repeats_unbounded_only(max_occurs) == max_occurs = Unbounded

\* maxo == "unbounded" or unbounded occurs, or maxo > 1
Repeats(max_occurs) == max_occurs = Unbounded \/ max_occurs > 1

\* the range of a child element, NONE where the code finds none
ChildRange(child, child_name, child_type) ==
  IF child.ref # NONE THEN local_name(child.ref)
  ELSE IF child_type.kind = "complex"
  THEN IF child_type.name # NONE THEN local_name(child_type.name)
       ELSE child_name
  ELSE IF child_type.kind # "none" THEN map_xsd_primitive(child_type)
  ELSE NONE

\* the documentation of a child, or the description that stands in for it
DescribeChild(slot, child, child_name, parent_class) ==
  IF child.annotation # <<>>
  THEN apply_doc_metadata(slot, child.annotation)
  ELSE [slot EXCEPT !.description = ChildDescription(child_name, parent_class)]

\* build_child_element_slot: ok is FALSE where the code returns None
build_child_element_slot(parent_class, child) ==
  LET child_name == local_name(child.name)
      child_range == ChildRange(child, child_name, ElementType(child))
  IN  [ok |-> child_name # NONE,
       slot_def |->
         DescribeChild(
           [EmptySlot EXCEPT
              !.range = IF child_range # NONE THEN child_range ELSE "string",
              !.required = (child.min_occurs >= 1),
              !.multivalued = Repeats(child.max_occurs)],
           child, child_name, parent_class),
       child_name |-> child_name, child_range |-> child_range]

(***************************************************************************)
(* ChoiceConstraintHandler: reading the choices off a content model        *)
(***************************************************************************)
choice_is_repeating(group) == Repeats(group.max_occurs)

RECURSIVE VisitSlots(_)
\* _visit of collect_branch_slots over a list of items
VisitSlots(items) ==
  IF items = <<>> THEN <<>>
  ELSE LET item == Head(items)
           slot_name == local_name(IF item.name # NONE THEN item.name ELSE item.ref)
       IN  (IF item.kind = "group" THEN VisitSlots(iter_model(item))
            ELSE IF slot_name # NONE THEN << <<slot_name, item.min_occurs # 0>> >>
            ELSE <<>>) \o VisitSlots(Tail(items))

collect_branch_slots(node) == VisitSlots(<<node>>)

RECURSIVE BranchesOf(_)
\* the loop of extract_choice_branches over the items of a choice
BranchesOf(items) ==
  IF items = <<>> THEN <<>>
  ELSE LET item == Head(items)
       IN  (IF item.kind = "group" /\ item.model = "choice"
            THEN BranchesOf(iter_model(item))
            ELSE <<collect_branch_slots(item)>>) \o BranchesOf(Tail(items))

extract_choice_branches(group) ==
  SelectSeq(BranchesOf(iter_model(group)), LAMBDA branch : branch # <<>>)

RECURSIVE CollectItems(_, _, _)
\* the loop of collect_choice_constraints over content.iter_model()
CollectItems(m, class_name, items) ==
  Only({ (
      IF items = <<>> THEN M
      ELSE LET item == Head(items)
               M1 == IF item.kind = "group" /\ item.model = "choice"
                     THEN apply_choice_constraint(M, class_name,
                                                  extract_choice_branches(item),
                                                  choice_is_repeating(item))
                     ELSE M
           IN  CollectItems(M1, class_name, Tail(items))
    ) : M \in {m} })

\* a collection that reads the content group itself and none of its items
collect_choice_constraints_content_only(m, class_name, content) ==
  Only({ (
      IF content.kind = "group" /\ content.model = "choice"
      THEN apply_choice_constraint(M, class_name,
                                   extract_choice_branches(content),
                                   choice_is_repeating(content))
      ELSE M
    ) : M \in {m} })

collect_choice_constraints(m, class_name, content) ==
  Only({ (
      IF content.kind # "group" THEN M
      ELSE LET M1 == IF content.model = "choice"
                     THEN apply_choice_constraint(M, class_name,
                                                  extract_choice_branches(content),
                                                  choice_is_repeating(content))
                     ELSE M
           IN  CollectItems(M1, class_name, iter_model(content))
    ) : M \in {m} })

(***************************************************************************)
(* TypeProcessor                                                           *)
(***************************************************************************)
\* f"Complex type {class_name}"
ComplexTypeDescription(class_name) == << <<"Complex type ", class_name>> >>

\* f"Inline complex type for {child_name}"
InlineDescription(child_name) == << <<"Inline complex type for ", child_name>> >>

\* f"The {element_name} element from the XML Schema."
ElementDescription(element_name) ==
  << <<"The ", element_name, " element from the XML Schema.">> >>

\* f"Head of substitution group {head_name}"
HeadDescription(head_name) == << <<"Head of substitution group ", head_name>> >>

\* the declared attributes, the content and the annotation of a type
TypeAttributes(type_def) ==
  IF type_def.kind = "complex" THEN type_def.attributes ELSE <<>>
TypeContent(type_def) ==
  IF type_def.kind = "complex" THEN type_def.content ELSE NoContent
TypeAnnotation(type_def) ==
  IF type_def.kind = "complex" THEN type_def.annotation ELSE <<>>

\* the children the passes walk: content.iter_elements() of a group
ContentChildren(content) ==
  IF content.kind = "group" THEN iter_elements(content) ELSE <<>>

RECURSIVE AddAttributes(_, _, _)
\* the attribute loop of populate_complex_type
AddAttributes(m, class_name, attrs) ==
  Only({ (
      IF attrs = <<>> THEN M
      ELSE LET attr_local == local_name(Head(attrs).name)
           IN  Only({ AddAttributes(add_attribute(built.M, class_name, attr_local, built.slot),
                                    class_name, Tail(attrs)) :
                      built \in {slot_from_attribute(M, class_name, attr_local, Head(attrs))} })
    ) : M \in {m} })

RECURSIVE populate_complex_type(_, _, _, _)
RECURSIVE add_child_element(_, _, _)
RECURSIVE AddChildren(_, _, _)
RECURSIVE PopulateInline(_, _, _)
RECURSIVE AddBuiltChild(_, _, _, _)

\* the child loop of populate_complex_type and of process_elements
AddChildren(M, class_name, children) ==
  IF children = <<>> THEN M
  ELSE AddChildren(add_child_element(M, class_name, Head(children)),
                   class_name, Tail(children))

\* the documentation of a declaration merged into its class
DocumentClass(m, class_name, annotation) ==
  Only({ (
      IF annotation # <<>>
      THEN [M EXCEPT !.classes[class_name] = apply_doc_metadata(@, annotation)]
      ELSE M
    ) : M \in {m} })

populate_complex_type(M, class_name, type_def, fallback_description) ==
  IF type_def.kind = "none" THEN M
  ELSE
    LET M1 == ensure_class(M, class_name,
                           IF fallback_description # <<>> THEN fallback_description
                           ELSE ComplexTypeDescription(class_name))
        M2 == DocumentClass(M1, class_name, TypeAnnotation(type_def))
        M3 == AddAttributes(M2, class_name, TypeAttributes(type_def))
        M4 == AddChildren(M3, class_name, ContentChildren(TypeContent(type_def)))
    IN  collect_choice_constraints(M4, class_name, TypeContent(type_def))

\* a child's range left as a name, no class made for it
EnsureRangeClass_skip(m, child_range) == m

\* the class a child's range names, made if it is not there
EnsureRangeClass(m, child_range) ==
  Only({ (
      IF child_range # NONE /\ child_range \notin PRIMITIVE_RANGES
      THEN ensure_class(M, child_range, <<>>)
      ELSE M
    ) : M \in {m} })

\* the type declared inside a child, populated under the child's name
PopulateInline(m, built, child_type) ==
  Only({ (
      IF result.child_range = result.child_name
         /\ child_type.kind # "none" /\ child_type.name = NONE
      THEN populate_complex_type(M, result.child_name, child_type,
                                 InlineDescription(result.child_name))
      ELSE M
    ) : M \in {m}, result \in {built} })

\* add_child_element once the slot is built
AddBuiltChild(m, parent_class, child, built) ==
  Only({ (
      IF ~result.ok THEN M
      ELSE add_attribute(
             PopulateInline(EnsureRangeClass(M, result.child_range), result,
                            ElementType(child)),
             parent_class, result.child_name, result.slot_def)
    ) : M \in {m}, result \in {built} })

add_child_element(M, parent_class, child) ==
  AddBuiltChild(M, parent_class, child,
                build_child_element_slot(parent_class, child))

\* the complex types of xsd.types, in the order the second loop visits them
complex_types(schema) ==
  SelectSeq(schema.types,
            LAMBDA t : t.kind = "complex" /\ local_name(t.name) # NONE)

\* the base set as parent whether or not the base is a class yet
BaseParent_unconditional(m, type_name) ==
  Only({ (
      IF type_name \in DOMAIN inheritance_map
      THEN [M EXCEPT !.classes[type_name].is_a = inheritance_map[type_name]]
      ELSE M
    ) : M \in {m} })

\* cls["is_a"] = base_type, where the base of the type is a class already
BaseParent(m, type_name) ==
  Only({ (
      IF type_name \in DOMAIN inheritance_map
         /\ inheritance_map[type_name] \in DOMAIN M.classes
      THEN [M EXCEPT !.classes[type_name].is_a = inheritance_map[type_name]]
      ELSE M
    ) : M \in {m} })

\* one round of the second loop of process_complex_types
process_complex_type(M, type_def) ==
  BaseParent(
    ensure_class(
      populate_complex_type(M, local_name(type_def.name), type_def,
                            ComplexTypeDescription(local_name(type_def.name))),
      local_name(type_def.name), <<>>),
    local_name(type_def.name))

\* apply_local_identities: the constraints declared inside an element are
\* kept as annotations of its class
RECURSIVE AnnotateIdentities(_, _)
AnnotateIdentities(annotations, local_ids) ==
  IF local_ids = <<>> THEN annotations
  ELSE LET ident == Head(local_ids)
           ident_name == local_name(IF ident.name # NONE THEN ident.name
                                    ELSE "local_identity")
       IN  AnnotateIdentities(
             Put(annotations, <<"local_identity", "_", ident_name>>,
                 [tag |-> <<"local_identity">>,
                  value |-> [type |-> ident.kind, selector |-> ident.selector,
                             fields |-> ident.fields]]),
             Tail(local_ids))

\* apply_local_identities that keeps the first constraint of the element only
apply_local_identities_first_only(m, class_name, elem_def) ==
  Only({ (
      IF elem_def.identities = <<>> THEN M
      ELSE LET M1 == ensure_class(M, class_name, <<>>)
           IN  [M1 EXCEPT !.classes[class_name].annotations =
                  AnnotateIdentities(@, <<Head(elem_def.identities)>>)]
    ) : M \in {m} })

apply_local_identities(m, class_name, elem_def) ==
  Only({ (
      IF elem_def.identities = <<>> THEN M
      ELSE LET M1 == ensure_class(M, class_name, <<>>)
           IN  [M1 EXCEPT !.classes[class_name].annotations =
                  AnnotateIdentities(@, elem_def.identities)]
    ) : M \in {m} })

\* an anonymous complex type of a global element goes into the element's class
InlineTypeInto(m, element_name, elem_type) ==
  Only({ (
      IF elem_type.kind = "complex" /\ elem_type.name = NONE
      THEN populate_complex_type(M, element_name, elem_type,
                                 M.classes[element_name].description)
      ELSE M
    ) : M \in {m} })

MarkAbstract(m, class_name, abstract) ==
  Only({ (
      IF abstract THEN [M EXCEPT !.classes[class_name].abstract = TRUE] ELSE M
    ) : M \in {m} })

\* is_a from the named type of the element
DirectTypeParent(m, element_name, elem_type) ==
  Only({ (
      LET direct_type_name == IF elem_type.kind # "none" /\ elem_type.name # NONE
                              THEN AfterBrace(elem_type.name) ELSE NONE
      IN  IF direct_type_name # NONE /\ direct_type_name \in DOMAIN M.classes
             /\ direct_type_name # element_name
          THEN [M EXCEPT !.classes[element_name].is_a = direct_type_name]
          ELSE M
    ) : M \in {m} })

\* the head of the substitution group: made, marked abstract, and the parent
AbstractHead(m, element_name, head_name) ==
  Only({ (
      [M EXCEPT !.classes =
         [name \in DOMAIN M.classes |->
            IF name = element_name /\ name = head_name
            THEN [M.classes[name] EXCEPT !.abstract = TRUE, !.is_a = head_name]
            ELSE IF name = head_name THEN [M.classes[name] EXCEPT !.abstract = TRUE]
            ELSE IF name = element_name THEN [M.classes[name] EXCEPT !.is_a = head_name]
            ELSE M.classes[name]]]
    ) : M \in {m} })

SubstitutionGroupParent(m, element_name, sg) ==
  Only({ (
      IF sg # NONE
      THEN AbstractHead(ensure_class(M, AfterBrace(sg), HeadDescription(AfterBrace(sg))),
                        element_name, AfterBrace(sg))
      ELSE M
    ) : M \in {m} })

\* is_a from the base type of a simple content
ContentBaseParent(m, element_name, elem_type) ==
  Only({ (
      LET type_content == TypeContent(elem_type)
          base_name == IF type_content.kind = "simple"
                          /\ type_content.base_type.kind # "none"
                       THEN AfterBrace(type_content.base_type.name) ELSE NONE
      IN  IF base_name # NONE /\ base_name \in DOMAIN M.classes
          THEN [M EXCEPT !.classes[element_name].is_a = base_name]
          ELSE M
    ) : M \in {m} })

\* the children and the choices of an element whose type is not anonymous
NamedTypeChildren(m, element_name, elem_type) ==
  Only({ (
      IF elem_type.kind = "complex" /\ elem_type.name = NONE THEN M
      ELSE collect_choice_constraints(
             AddChildren(M, element_name, ContentChildren(TypeContent(elem_type))),
             element_name, TypeContent(elem_type))
    ) : M \in {m} })

\* one round of the loop of process_elements
process_element(M, elem_def) ==
  LET element_name == AfterBrace(elem_def.name)
      M1 == ensure_class(M, element_name, ElementDescription(element_name))
      M2 == InlineTypeInto(M1, element_name, elem_def.type)
      M3 == DocumentClass(M2, element_name, elem_def.annotation)
      M4 == MarkAbstract(M3, element_name, elem_def.abstract)
      M5 == DirectTypeParent(M4, element_name, elem_def.type)
      M6 == SubstitutionGroupParent(M5, element_name, elem_def.substitution_group)
      M7 == ContentBaseParent(M6, element_name, elem_def.type)
      M8 == NamedTypeChildren(M7, element_name, elem_def.type)
  IN  apply_local_identities(M8, element_name, elem_def)

(***************************************************************************)
(* IdentityProcessor.  A path is kept as parsed: a selector is the list of *)
(* its alternatives (the parts between "|"), an alternative and a field    *)
(* path the list of its segments (the parts between "/").  The selector of *)
(* a keyref has one alternative.                                           *)
(***************************************************************************)
Identity(kind, name, refer, selector, fields) ==
  [kind |-> kind, name |-> name, refer |-> refer, selector |-> selector,
   fields |-> fields]

\* [seg for seg in path.replace("//", "/").split("/") if seg and seg != "."]
Segments(path) == SelectSeq(path, LAMBDA seg : seg # "" /\ seg # ".")

\* field_segment[1:] for a segment that starts with "@"
StripAt(segment) ==
  CASE segment = "@ID" -> "ID"
    [] segment = "@id" -> "id"
    [] segment = "@ref" -> "ref"
    [] OTHER -> segment

RECURSIVE FieldSlotNames(_)
\* the slot names of the field paths, in field order
FieldSlotNames(fields) ==
  IF fields = <<>> THEN <<>>
  ELSE LET field_path == Head(fields)
           field_segment ==
             IF field_path = <<>> THEN NONE
             ELSE local_name(StripAt(field_path[Len(field_path)]))
       IN  (IF field_segment # NONE THEN <<field_segment>> ELSE <<>>)
             \o FieldSlotNames(Tail(fields))

RECURSIVE RegisterKey_no_map(_, _, _, _)
\* the loop over the selector paths without the entry in key_target_map
RegisterKey_no_map(r, key_local_name, slot_names, paths) ==
  Only({ (
      IF paths = <<>> THEN R
      ELSE LET segments == Segments(Head(paths))
               target_segment == segments[Len(segments)]
               target_class == local_name(target_segment)
               skip == segments = <<>> \/ target_segment = "*" \/ target_class = NONE
               R1 == IF skip THEN R
                     ELSE [R EXCEPT !.M = add_unique_key(R.M, target_class,
                                                         key_local_name, slot_names)]
           IN  RegisterKey_no_map(R1, key_local_name, slot_names, Tail(paths))
    ) : R \in {r} })

RECURSIVE RegisterKey(_, _, _, _)
\* the loop over the selector paths of a key: R holds M and key_target_map
RegisterKey(r, key_local_name, slot_names, paths) ==
  Only({ (
      IF paths = <<>> THEN R
      ELSE LET segments == Segments(Head(paths))
               target_segment == segments[Len(segments)]
               target_class == local_name(target_segment)
               skip == segments = <<>> \/ target_segment = "*" \/ target_class = NONE
               R1 == IF skip THEN R
                     ELSE [M |-> add_unique_key(R.M, target_class, key_local_name,
                                                slot_names),
                           key_target_map |->
                             Put(R.key_target_map, key_local_name,
                                 (IF key_local_name \in DOMAIN R.key_target_map
                                  THEN R.key_target_map[key_local_name] ELSE {})
                                   \cup {target_class})]
           IN  RegisterKey(R1, key_local_name, slot_names, Tail(paths))
    ) : R \in {r} })

\* the slot of a keyref without the annotation that records the reference
ReferenceSlot_no_annotation(range_target) ==
  [EmptySlot EXCEPT !.range = range_target]

\* {"range": range_target, "annotations": {f"references_{range_target}": ...}}
ReferenceSlot(range_target) ==
  [EmptySlot EXCEPT
     !.range = range_target,
     !.annotations = (<<"references", "_", range_target>> :>
                        [tag |-> <<"references">>, value |-> <<range_target>>])]

RECURSIVE AddReferenceSlots(_, _, _, _)
AddReferenceSlots(m, source_class, range_target, slot_names) ==
  Only({ (
      IF slot_names = <<>> \/ range_target = NONE THEN M
      ELSE AddReferenceSlots(
             add_attribute(M, source_class, Head(slot_names),
                           ReferenceSlot(range_target)),
             source_class, range_target, Tail(slot_names))
    ) : M \in {m} })

\* the classes of a keyref's key looked up in the whole list of constraints,
\* whether the key comes before the keyref or after it
TargetClasses_whole_pass(ktm, ident) ==
  UNION { {local_name(Segments(key.selector[k])[Len(Segments(key.selector[k]))]) :
             k \in {j \in 1..Len(key.selector) :
                      /\ Segments(key.selector[j]) # <<>>
                      /\ Segments(key.selector[j])[Len(Segments(key.selector[j]))] # "*"}}
          : key \in {x \in Range(xsd.identities) :
                       /\ x.kind \in {"key", "unique"}
                       /\ local_name(x.name) = local_name(ident.refer)
                       /\ FieldSlotNames(x.fields) # <<>>} }

\* the classes a keyref's key targets: key_target_map.get(refer_key) or set()
TargetClasses(ktm, ident) ==
  IF local_name(ident.refer) \in DOMAIN ktm THEN ktm[local_name(ident.refer)]
  ELSE {}

\* one round of the loop of process_identities; order is the order in which
\* the set of target classes is enumerated
process_identity(R, ident, order) ==
  IF ident.kind \in {"key", "unique"}
  THEN LET slot_names == FieldSlotNames(ident.fields)
       IN  IF slot_names = <<>> THEN R
           ELSE RegisterKey(R, local_name(ident.name), slot_names, ident.selector)
  ELSE IF ident.refer = NONE THEN R
  ELSE LET segments == IF ident.selector = <<>> THEN <<>>
                       ELSE Segments(ident.selector[Len(ident.selector)])
           source_segment == segments[Len(segments)]
           range_target == select_keyref_range(R.M.classes, inheritance_map, order)
       IN  IF segments = <<>> \/ source_segment = "*" THEN R
           ELSE [R EXCEPT !.M =
                   AddReferenceSlots(R.M, local_name(source_segment), range_target,
                                     FieldSlotNames(ident.fields))]

(***************************************************************************)
(* A whole run.  The source schema is drawn from a catalogue of            *)
(* declarations; the converter's passes then run in their order: the       *)
(* complex types, the global elements, the identity constraints, and the   *)
(* relaxation of the choice members at the end.  Each action is one round  *)
(* of a pass's loop.                                                       *)
(***************************************************************************)
MaxTypes == 2
MaxElements == 2

String == Builtin("string")
Float == Builtin("float")
ImageID == SimpleType("ImageID", String, <<>>, "Image:\\S+")
Kind == SimpleType(NONE, String, <<"a", "b">>, NONE)

\* a required string attribute, an optional repeatable child, a choice of two
SampleType ==
  ComplexType("Sample", NONE,
    << Attribute("name", "required", String) >>,
    Group("sequence", 1, 1,
      << Element("tag", String, 0, Unbounded),
         Group("choice", 1, 1,
           << Element("weight", Float, 1, 1),
              Element("volume", Float, 1, 1) >>) >>))

\* an identifier, an enumerated attribute and a repeatable choice of two
ImageType ==
  ComplexType("Image", NONE,
    << Attribute("ID", "required", ImageID),
       Attribute("kind", "optional", Kind) >>,
    Group("choice", 1, Unbounded,
      << Element("X", String, 1, 1), Element("Y", String, 0, 1) >>))

\* a repeatable choice with one branch
ChannelType ==
  ComplexType("Channel", NONE, <<>>,
    Group("sequence", 1, 1,
      << Group("choice", 0, Unbounded, << Element("X", String, 1, 1) >>),
         Element("tag", String, 1, 1) >>))

ReferenceType ==
  ComplexType("Reference", NONE, <<>>, NoContent)

\* a reference: its ID names the class it points to
ImageRefType ==
  ComplexType("ImageRef", "Reference",
    << Attribute("ID", "required", ImageID) >>, NoContent)

\* an anonymous type declared inside a child element
InnerType ==
  ComplexType(NONE, NONE,
    << Attribute("name", "optional", String) >>,
    Group("choice", 1, 1,
      << Element("X", String, 1, 1), Element("Y", String, 1, 1) >>))

\* a child of a type declared elsewhere, a branch of two slots, an inline
\* type, and a repeatable choice two groups deep
PlateType ==
  ComplexType("Plate", NONE, <<>>,
    Group("sequence", 1, 1,
      << Element("Sample", SampleType, 1, Unbounded),
         Group("choice", 1, 1,
           << Group("sequence", 1, 1,
                << Element("tag", String, 1, 1),
                   Element("weight", Float, 1, 1) >>),
              Element("volume", Float, 1, 1) >>),
         Element("Inner", InnerType, 0, 1),
         Group("sequence", 0, 1,
           << Group("choice", 1, Unbounded,
                << Element("X", String, 1, 1),
                   Element("Y", String, 1, 1) >>) >>) >>))

TypeChoices ==
  {SampleType, ImageType, ChannelType, ReferenceType, ImageRefType, PlateType,
   ImageID}

\* the type of the global element Root, declared inside it
RootType ==
  ComplexType(NONE, NONE,
    << Attribute("id", "optional", String) >>,
    Group("choice", 1, 1,
      << ElementRef("{ome}Image", 1, 1), Element("X", String, 1, 1) >>))

ElementChoices ==
  { Element("Sample", SampleType, 1, 1),
    Element("Sample", ChannelType, 1, 1),
    Element("Channel", SampleType, 1, 1),
    [Element("{ome}Image", String, 1, 1) EXCEPT
       !.annotation = << <<"An", " ", "image">>, <<"Tier", "=", "1">> >>],
    [Element("Root", RootType, 1, 1) EXCEPT
       !.abstract = TRUE,
       !.identities = << Identity("key", "RootKey", NONE,
                                  << <<".", "X">> >>, << <<"@id">> >>) >>],
    [Element("Derived", String, 1, 1) EXCEPT !.substitution_group = "Root"] }

IdentityChoices ==
  { <<>>,
    << Identity("key", "ImageKey", NONE, << <<".", "", "ome:Image">> >>,
                << <<"@ID">> >>),
       Identity("keyref", "ImageRefKey", "ImageKey",
                << <<".", "", "ome:ImageRef">> >>, << <<"@ID">> >>) >>,
    << Identity("keyref", "ImageRefKey", "ImageKey",
                << <<".", "", "ome:ImageRef">> >>, << <<"@ID">> >>),
       Identity("key", "ImageKey", NONE, << <<".", "", "ome:Image">> >>,
                << <<"@ID">> >>) >>,
    << Identity("unique", "AnyKey", NONE,
                << <<"Sample">>, <<"Channel">>, <<"*">> >>, << <<"@ID">>, <<>> >>),
       Identity("keyref", "PlateKey", "AnyKey", << <<"Plate">> >>,
                << <<"@ref">> >>) >> }

\* the lists of up to n members of a set, no name twice
ListsOf(choices, n) ==
  {list \in UNION {[1..k -> choices] : k \in 0..n} :
     \A i, j \in 1..Len(list) :
        i # j => list[i].name # list[j].name}

\* the names declared by a list of declarations
DeclaredNames(list) == {list[k].name : k \in 1..Len(list)}

RECURSIVE TypesUsed(_)
\* the named types the particles of a list of items are declared with
TypesUsed(items) ==
  IF items = <<>> THEN {}
  ELSE LET item == Head(items)
       IN  (IF item.kind = "group" THEN TypesUsed(item.items)
            ELSE IF item.type.kind = "complex" /\ item.type.name # NONE
            THEN {item.type}
            ELSE IF item.type.kind = "complex" /\ item.type.content.kind = "group"
            THEN TypesUsed(item.type.content.items)
            ELSE {}) \cup TypesUsed(Tail(items))

RECURSIVE RefsUsed(_)
\* the global elements the particles of a list of items refer to
RefsUsed(items) ==
  IF items = <<>> THEN {}
  ELSE LET item == Head(items)
       IN  (IF item.kind = "group" THEN RefsUsed(item.items)
            ELSE IF item.ref # NONE THEN {item.ref}
            ELSE IF item.type.kind = "complex" /\ item.type.content.kind = "group"
            THEN RefsUsed(item.type.content.items)
            ELSE {}) \cup RefsUsed(Tail(items))

\* the content items of a complex type, none for any other type
ItemsOf(type_def) ==
  IF type_def.kind = "complex" /\ type_def.content.kind = "group"
  THEN type_def.content.items ELSE <<>>

\* a schema the parser accepts: every base type, every type a particle or a
\* global element is declared with, every referenced element and every
\* substitution-group head is declared in it
WellFormed(schema) ==
  LET types == Range(schema.types)
      elements == Range(schema.elements)
      complex == {t \in types : t.kind = "complex"}
      type_names == {t.name : t \in complex}
  IN  /\ \A t \in complex :
            /\ t.base # NONE => t.base \in type_names
            /\ TypesUsed(ItemsOf(t)) \subseteq types
            /\ RefsUsed(ItemsOf(t)) \subseteq DeclaredNames(schema.elements)
      /\ \A e \in elements :
            /\ TypesUsed(<<e>>) \subseteq types
            /\ RefsUsed(ItemsOf(e.type)) \subseteq DeclaredNames(schema.elements)
            /\ e.substitution_group # NONE
                 => e.substitution_group \in DeclaredNames(schema.elements)

Schemas ==
  {schema \in [types : ListsOf(TypeChoices, MaxTypes),
               elements : ListsOf(ElementChoices, MaxElements),
               identities : IdentityChoices] : WellFormed(schema)}

\* the auxiliary inheritance map: the base of every complex type that has one
InheritanceMapOf(schema) ==
  LET derived == {t \in Range(complex_types(schema)) : t.base # NONE}
  IN  [n \in {local_name(t.name) : t \in derived} |->
         local_name((CHOOSE t \in derived : local_name(t.name) = n).base)]

\* the names that will be classes: the complex types and the global elements
KnownClassNamesOf(schema) ==
  {local_name(t.name) : t \in Range(complex_types(schema))}
    \cup {AfterBrace(e.name) : e \in Range(schema.elements)}

\* the declarations a pass walks, and the pass that follows it
PassItems(pass) ==
  CASE pass = "types" -> complex_types(xsd)
    [] pass = "elements" -> xsd.elements
    [] pass = "identities" -> xsd.identities
    [] OTHER -> <<>>

\* an order in which the relaxation follows the complex types at once
PassAfter_relax_early(pass) == "relax"

PassAfter(pass) ==
  CASE pass = "types" -> "elements"
    [] pass = "elements" -> "identities"
    [] OTHER -> "relax"

\* the first pass from `pass` on that has a declaration to walk
PassFrom(schema, pass) ==
  IF pass = "types" /\ complex_types(schema) # <<>> THEN "types"
  ELSE IF pass \in {"types", "elements"} /\ schema.elements # <<>> THEN "elements"
  ELSE IF pass \in {"types", "elements", "identities"} /\ schema.identities # <<>>
  THEN "identities"
  ELSE "relax"

\* the loop of the pass goes on, or the next pass begins
Advance(pass) ==
  IF step < Len(PassItems(pass))
  THEN pc' = pass /\ step' = step + 1
  ELSE pc' = PassFrom(xsd, PassAfter(pass)) /\ step' = 1

Init ==
  /\ xsd \in Schemas
  /\ pc = PassFrom(xsd, "types")
  /\ step = 1
  /\ classes = EmptyMap
  /\ enums = EmptyMap
  /\ choice_slot_membership = EmptyMap
  /\ choice_repeat_membership = EmptyMap
  /\ inheritance_map = InheritanceMapOf(xsd)
  /\ known_class_names = KnownClassNamesOf(xsd)
  /\ key_target_map = EmptyMap
  /\ call = NoCall

ProcessComplexTypes ==
  /\ pc = "types"
  /\ LET type_def == complex_types(xsd)[step]
     IN  /\ Commit(process_complex_type(Model, type_def))
         /\ call' = [op |-> "process_complex_types", name |-> type_def.name]
  /\ Advance("types")
  /\ UNCHANGED <<xsd, inheritance_map, known_class_names, key_target_map>>

ProcessElements ==
  /\ pc = "elements"
  /\ LET elem_def == xsd.elements[step]
     IN  /\ Commit(process_element(Model, elem_def))
         /\ call' = [op |-> "process_elements", name |-> elem_def.name]
  /\ Advance("elements")
  /\ UNCHANGED <<xsd, inheritance_map, known_class_names, key_target_map>>

\* the orders in which a set may be enumerated
Enumerations(set) == {order \in Orders(set) : Len(order) = Cardinality(set)}

ProcessIdentities ==
  /\ pc = "identities"
  /\ LET ident == xsd.identities[step]
     IN  \E order \in Enumerations(TargetClasses(key_target_map, ident)) :
           LET R == process_identity([M |-> Model, key_target_map |-> key_target_map],
                                     ident, order)
           IN  /\ Commit(R.M)
               /\ key_target_map' = R.key_target_map
               /\ call' = [op |-> "process_identities", name |-> ident.name]
  /\ Advance("identities")
  /\ UNCHANGED <<xsd, inheritance_map, known_class_names>>

RelaxChoiceConstraints ==
  /\ pc = "relax"
  /\ Commit(relax_choice_constraints(Model))
  /\ call' = [op |-> "relax_choice_constraints", before |-> Model]
  /\ pc' = "done"
  /\ UNCHANGED <<step, xsd, inheritance_map, known_class_names, key_target_map>>

Next ==
  \/ ProcessComplexTypes
  \/ ProcessElements
  \/ ProcessIdentities
  \/ RelaxChoiceConstraints

Spec == Init /\ [][Next]_vars

(***************************************************************************)
(* The complete run: properties of the target model once the relaxation    *)
(* pass has followed the population passes.                                *)
(***************************************************************************)

\* the slots named by the exactly-one-of expressions of a class record
ExactlyOneOfSlots(cls) ==
  UNION {DOMAIN cls.exactly_one_of[k].slot_conditions :
           k \in 1..Len(cls.exactly_one_of)}

\* the slots recorded as members of a choice of class c
ChoiceMembers(c) ==
  IF c \in DOMAIN choice_slot_membership THEN choice_slot_membership[c] ELSE {}

\* C2: after a complete run, every slot of a class that is recorded as a
\* member of one of the class's choices, and every slot named in the class's
\* exactly-one-of constraint, is not marked required.
C2_ChoiceMembersNotRequired ==
  pc = "done" =>
    \A c \in DOMAIN classes :
      \A s \in DOMAIN classes[c].attributes :
        s \in ChoiceMembers(c) \cup ExactlyOneOfSlots(classes[c])
          => ~classes[c].attributes[s].required

\* a run has ended in which the relaxation pass found a choice member that the
\* Slot Builder had marked required, one named in the exactly-one-of constraint
\* and one that is a member of a branch of several slots
C2_Witness ==
  /\ pc = "done"
  /\ call.op = "relax_choice_constraints"
  /\ \E c \in DOMAIN classes :
       \E s \in ExactlyOneOfSlots(classes[c]) :
         /\ call.before.classes[c].attributes[s].required
         /\ ~classes[c].attributes[s].required
  /\ \E c \in DOMAIN classes :
       \E s \in ChoiceMembers(c) \ ExactlyOneOfSlots(classes[c]) :
         /\ s \in DOMAIN classes[c].attributes
         /\ call.before.classes[c].attributes[s].required
         /\ ~classes[c].attributes[s].required

RECURSIVE ChoiceGroups(_)
\* the choice groups among a list of items, at any depth of nesting
ChoiceGroups(items) ==
  IF items = <<>> THEN {}
  ELSE LET item == Head(items)
       IN  (IF item.kind = "group"
            THEN (IF item.model = "choice" THEN {item} ELSE {})
                   \cup ChoiceGroups(item.items)
            ELSE {}) \cup ChoiceGroups(Tail(items))

\* the choice groups of the content of a complex type
ChoicesOf(type_def) ==
  IF type_def.content.kind = "group" THEN ChoiceGroups(<<type_def.content>>)
  ELSE {}

\* the slots the branches of a choice group introduce
ChoiceSlotNames(group) ==
  {local_name(IF e.name # NONE THEN e.name ELSE e.ref) :
     e \in Range(iter_elements(group))}

\* C3: after the relaxation pass, every slot introduced by a branch of a
\* repeatable choice (maximum occurrence above one, or unbounded) of a complex
\* type is marked multivalued in the class of the type, whatever the
\* occurrence of the slot's own declaration.
C3_RepeatableChoiceSlotsMultivalued ==
  pc = "done" =>
    \A t \in Range(complex_types(xsd)) :
      \A g \in ChoicesOf(t) :
        choice_is_repeating(g) =>
          \A s \in ChoiceSlotNames(g) :
            /\ s \in DOMAIN classes[local_name(t.name)].attributes
            /\ classes[local_name(t.name)].attributes[s].multivalued

\* the schema of the Sample scenario: the one complex type and nothing else
SampleSchema == [types |-> <<SampleType>>, elements |-> <<>>, identities |-> <<>>]

\* C6: translating the schema with the one complex type Sample (a required
\* string attribute name, an optional repeatable string child tag, a choice
\* between the children weight and volume) yields the one class Sample, whose
\* slots are name (required, single-valued, string), tag (multivalued, string),
\* weight and volume (neither required), with an exactly-one-of constraint
\* naming weight and volume.
C6_SampleScenario ==
  (pc = "done" /\ xsd = SampleSchema) =>
    /\ DOMAIN classes = {"Sample"}
    /\ LET attrs == classes["Sample"].attributes
       IN  /\ DOMAIN attrs = {"name", "tag", "weight", "volume"}
           /\ attrs["name"].required /\ ~attrs["name"].multivalued
           /\ attrs["name"].range = "string"
           /\ attrs["tag"].multivalued /\ attrs["tag"].range = "string"
           /\ ~attrs["tag"].required
           /\ ~attrs["weight"].required /\ ~attrs["volume"].required
           /\ ~attrs["weight"].multivalued /\ ~attrs["volume"].multivalued
    /\ classes["Sample"].exactly_one_of = <<SlotExpr("weight"), SlotExpr("volume")>>

\* the run of the Sample schema has ended, and its relaxation pass found the
\* class Sample populated with weight and volume still required
C6_Witness ==
  /\ pc = "done"
  /\ xsd = SampleSchema
  /\ call.op = "relax_choice_constraints"
  /\ call.before.classes["Sample"].attributes["weight"].required
  /\ call.before.classes["Sample"].attributes["volume"].required
  /\ "tag" \in DOMAIN classes["Sample"].attributes

\* nothing stored for a class by the state is missing from it in the next
\* state: its slots, its exactly-one-of expressions, its unique keys, its
\* annotation keys and its subsets are still there
ClassKept(name) ==
  /\ name \in DOMAIN classes'
  /\ DOMAIN classes[name].attributes \subseteq DOMAIN classes'[name].attributes
  /\ Range(classes[name].exactly_one_of) \subseteq Range(classes'[name].exactly_one_of)
  /\ DOMAIN classes[name].unique_keys \subseteq DOMAIN classes'[name].unique_keys
  /\ DOMAIN classes[name].annotations \subseteq DOMAIN classes'[name].annotations
  /\ Range(classes[name].in_subset) \subseteq Range(classes'[name].in_subset)

\* C8: ensure_class is idempotent: after any sequence of passes, ensure_class
\* with the name of an existing class adds no class and leaves every field of
\* the model as it was; and a pass that meets the name of an existing class
\* again (as a complex type, a global element, a child range or a
\* substitution-group head) merges into that class: the class and what was
\* stored for it are kept.
C8_EnsureClassIdempotent ==
  /\ [](\A name \in DOMAIN classes :
          \A d \in {<<>>, ElementDescription(name), HeadDescription(name)} :
             ensure_class(Model, name, d) = Model)
  /\ [][\A name \in DOMAIN classes : ClassKept(name)]_vars

\* the element pass has met the name Sample, which the type pass had made a
\* class with the slot name: the class now also holds the child X of the
\* element's type
C8_Witness ==
  /\ call.op = "process_elements"
  /\ call.name = "Sample"
  /\ "Sample" \in DOMAIN classes
  /\ {"name", "X"} \subseteq DOMAIN classes["Sample"].attributes
  /\ classes["Sample"].description = ComplexTypeDescription("Sample")

RECURSIVE ReachesRoot(_, _)
\* following is_a from class c, without passing a class of `visited` again,
\* ends at a class that has no parent
ReachesRoot(c, visited) ==
  IF c \notin DOMAIN classes \/ classes[c].is_a = NONE THEN TRUE
  ELSE IF c \in visited THEN FALSE
  ELSE ReachesRoot(classes[c].is_a, visited \cup {c})

\* C9: once the complex-type pass and the element pass are over, the is_a
\* relation of the target model has no cycle: following is_a from any class
\* reaches a class without a parent, and no class is its own parent.
C9_IsANoCycle ==
  pc \in {"identities", "relax", "done"} =>
    \A c \in DOMAIN classes :
      /\ classes[c].is_a # c
      /\ ReachesRoot(c, {})

\* the ranges of the slots stored in the target model, with where they are
SlotsStored ==
  UNION {{<<c, s>> : s \in DOMAIN classes[c].attributes} : c \in DOMAIN classes}

RangeOf(cs) == classes[cs[1]].attributes[cs[2]].range

AllDeclarationsVisited ==
  /\ \A t \in Range(complex_types(xsd)) : local_name(t.name) \in DOMAIN classes
  /\ \A e \in Range(xsd.elements) : AfterBrace(e.name) \in DOMAIN classes

\* C11: the relaxation pass is the last step that touches the model: it runs
\* only when the complex-type pass, the element pass and the identity pass
\* are over, and after it no step is taken, so that no slot is added and no
\* required flag is set once relaxation has run.
C11_RelaxationIsLast ==
  /\ [](pc \in {"relax", "done"} => AllDeclarationsVisited)
  /\ [](call.op = "relax_choice_constraints" <=> pc = "done")
  /\ [][/\ pc # "done"
        /\ call'.op = "relax_choice_constraints" => pc = "relax"
        /\ pc = "relax" => pc' = "done"
        /\ pc = "identities" => pc' \in {"identities", "relax"}
        /\ pc = "elements" => pc' \in {"elements", "identities", "relax"}]_vars

\* a run with complex types, global elements and identity constraints has
\* ended, and its relaxation pass changed a slot
C11_Witness ==
  /\ pc = "done"
  /\ call.op = "relax_choice_constraints"
  /\ complex_types(xsd) # <<>> /\ xsd.elements # <<>> /\ xsd.identities # <<>>
  /\ AllDeclarationsVisited
  /\ call.before.classes # classes

(***************************************************************************)
(* Declarations that cannot be read.  A declaration whose type is          *)
(* Unreadable makes the call that builds its slot raise.  What the model   *)
(* holds when the error leaves populate_complex_type is what the call      *)
(* would have left for the type cut before the first such declaration.     *)
(* An error that leaves a pass reaches the caller of the passes, which     *)
(* either ends the run or goes on with the next pass.                      *)
(***************************************************************************)
Unreadable == [kind |-> "unreadable"]

\* building the slot of the declaration raises
Raises(decl) == decl.type.kind = "unreadable"

\* the declarations of a list that come before the first one that raises
RECURSIVE BeforeError(_)
BeforeError(decls) ==
  IF decls = <<>> \/ Raises(Head(decls)) THEN <<>>
  ELSE <<Head(decls)>> \o BeforeError(Tail(decls))

AnyRaises(decls) == \E k \in 1..Len(decls) : Raises(decls[k])

\* populate_complex_type raises on the type: there is no handler in it
PopulateRaises(type_def) ==
  /\ type_def.kind = "complex"
  /\ \/ AnyRaises(type_def.attributes)
     \/ AnyRaises(ContentChildren(type_def.content))

\* the child loop stopped at the first child that raises, the choices unread
ChildrenBeforeError(type_def) ==
  [type_def EXCEPT
     !.content = Group("sequence", 1, 1, BeforeError(ContentChildren(@)))]

\* the type as far as populate_complex_type gets with it
ReadBeforeError(type_def) ==
  IF AnyRaises(type_def.attributes)
  THEN [type_def EXCEPT !.attributes = BeforeError(@), !.content = NoContent]
  ELSE ChildrenBeforeError(type_def)

\* the error has left the pass: the run is over, or the next pass begins
ErrorLeaves(pass) ==
  /\ pc' \in {"failed", PassFrom(xsd, PassAfter(pass))}
  /\ step' = 1

\* one round of process_complex_types, which has no handler of its own
ProcessComplexTypesOrRaise ==
  /\ pc = "types"
  /\ LET type_def == complex_types(xsd)[step]
     IN  IF PopulateRaises(type_def)
         THEN /\ Commit(populate_complex_type(Model, local_name(type_def.name),
                                              ReadBeforeError(type_def),
                                              ComplexTypeDescription(local_name(type_def.name))))
              /\ call' = [op |-> "process_complex_types", name |-> type_def.name,
                          raised |-> TRUE]
              /\ ErrorLeaves("types")
         ELSE /\ Commit(process_complex_type(Model, type_def))
              /\ call' = [op |-> "process_complex_types", name |-> type_def.name,
                          raised |-> FALSE]
              /\ Advance("types")
  /\ UNCHANGED <<xsd, inheritance_map, known_class_names, key_target_map>>

\* one round of process_elements: the type declared inside the element is
\* populated outside any handler, the children of a named type inside one
ProcessElementsOrRaise ==
  /\ pc = "elements"
  /\ LET elem_def == xsd.elements[step]
         element_name == AfterBrace(elem_def.name)
         inline == elem_def.type.kind = "complex" /\ elem_def.type.name = NONE
     IN  IF inline /\ PopulateRaises(elem_def.type)
         THEN /\ Commit(populate_complex_type(
                          ensure_class(Model, element_name,
                                       ElementDescription(element_name)),
                          element_name, ReadBeforeError(elem_def.type),
                          ElementDescription(element_name)))
              /\ call' = [op |-> "process_elements", name |-> elem_def.name,
                          raised |-> TRUE]
              /\ ErrorLeaves("elements")
         ELSE /\ Commit(process_element(Model,
                          IF elem_def.type.kind = "complex"
                             /\ AnyRaises(ContentChildren(elem_def.type.content))
                          THEN [elem_def EXCEPT !.type = ChildrenBeforeError(@)]
                          ELSE elem_def))
              /\ call' = [op |-> "process_elements", name |-> elem_def.name,
                          raised |-> FALSE]
              /\ Advance("elements")
  /\ UNCHANGED <<xsd, inheritance_map, known_class_names, key_target_map>>

\* a type whose second attribute cannot be read
UnreadableAttributeType ==
  ComplexType("Image", NONE,
    << Attribute("ID", "required", ImageID),
       Attribute("kind", "optional", Unreadable),
       Attribute("name", "optional", String) >>,
    Group("sequence", 1, 1, << Element("X", String, 1, 1) >>))

\* a type whose second child cannot be read
UnreadableChildType ==
  ComplexType("Channel", NONE,
    << Attribute("name", "optional", String) >>,
    Group("choice", 1, 1,
      << Element("X", String, 1, 1),
         Element("tag", Unreadable, 1, 1),
         Element("Y", String, 1, 1) >>))

\* a type declared inside an element, its attribute unreadable
UnreadableInlineType ==
  ComplexType(NONE, NONE, << Attribute("id", "optional", Unreadable) >>, NoContent)

\* schemas with unreadable declarations; the type of a global element may be
\* declared in another schema, and is then no member of xsd.types
UnreadableSchemas ==
  [types : ListsOf({SampleType, ReferenceType, UnreadableAttributeType,
                    UnreadableChildType}, MaxTypes),
   elements : ListsOf({ Element("Sample", SampleType, 1, 1),
                        Element("Channel", UnreadableChildType, 1, 1),
                        Element("Root", UnreadableInlineType, 1, 1),
                        Element("Derived", String, 1, 1) }, MaxElements),
   identities : {<<>>}]

InitUnreadable ==
  /\ xsd \in UnreadableSchemas
  /\ pc = PassFrom(xsd, "types")
  /\ step = 1
  /\ classes = EmptyMap
  /\ enums = EmptyMap
  /\ choice_slot_membership = EmptyMap
  /\ choice_repeat_membership = EmptyMap
  /\ inheritance_map = InheritanceMapOf(xsd)
  /\ known_class_names = KnownClassNamesOf(xsd)
  /\ key_target_map = EmptyMap
  /\ call = NoCall

NextUnreadable ==
  \/ ProcessComplexTypesOrRaise
  \/ ProcessElementsOrRaise
  \/ RelaxChoiceConstraints

SpecUnreadable == InitUnreadable /\ [][NextUnreadable]_vars

\* C12: a declaration that cannot be read is skipped for itself only: the
\* complex-type pass and the element pass go on to every remaining
\* declaration, and the run completes, with an incomplete class, instead of
\* failing.
C12_ErrorSkipsOneItem ==
  /\ pc # "failed"
  /\ pc \in {"relax", "done"} => AllDeclarationsVisited

(***************************************************************************)
(* generate_linkml_schema, step by step.  The record `call` holds the      *)
(* arguments of the call, what the file at the source path is, what the    *)
(* collaborators do with it, and what the call has written so far.         *)
(***************************************************************************)
GenerateCalls ==
  {c \in [op : {"generate_linkml_schema"},
          source : {"missing", "invalid", "valid"},  \* the file at ome_xsd_path
          json_converts : BOOLEAN,       \* xsd_to_json_schema returns
          converts : BOOLEAN,            \* LinkMLConverter(...).convert() returns
          has_classes : BOOLEAN,         \* "classes" in linkml_schema
          top_level_elements : BOOLEAN,  \* the argument is given
          json_output_path : BOOLEAN,
          output_path : BOOLEAN,
          partition : BOOLEAN,
          written : {{}}] :
     c.source # "valid" => ~c.json_converts}

\* the except clause of generate_linkml_schema: the error is logged and raised
ExceptClause_return == "returned"

ExceptClause == "raised"

InitGenerate ==
  /\ pc = "load"
  /\ step = 0
  /\ xsd = NoSchema
  /\ classes = EmptyMap
  /\ enums = EmptyMap
  /\ choice_slot_membership = EmptyMap
  /\ choice_repeat_membership = EmptyMap
  /\ inheritance_map = EmptyMap
  /\ known_class_names = {}
  /\ key_target_map = EmptyMap
  /\ call \in GenerateCalls

GenerateFrame ==
  UNCHANGED <<step, xsd, classes, enums, choice_slot_membership,
              choice_repeat_membership, inheritance_map, known_class_names,
              key_target_map>>

\* xsd = xmlschema.XMLSchema(ome_xsd_path)
LoadSchema ==
  /\ pc = "load"
  /\ pc' = IF call.source = "valid" THEN "to_json" ELSE ExceptClause
  /\ UNCHANGED call
  /\ GenerateFrame

\* json_schema = xsd_to_json_schema(ome_xsd_path), filtered if elements are named
ConvertToJson ==
  /\ pc = "to_json"
  /\ pc' = IF call.json_converts THEN "write_json" ELSE ExceptClause
  /\ UNCHANGED call
  /\ GenerateFrame

\* write_json_schema: a failure to write is logged, not raised
WriteJsonSchema ==
  /\ pc = "write_json"
  /\ IF call.json_output_path
     THEN \E wrote \in BOOLEAN :
            call' = [call EXCEPT !.written = IF wrote THEN @ \cup {"json"} ELSE @]
     ELSE UNCHANGED call
  /\ pc' = "convert"
  /\ GenerateFrame

\* linkml_schema = converter.convert()
ConvertSchema ==
  /\ pc = "convert"
  /\ pc' = IF call.converts THEN "write" ELSE ExceptClause
  /\ UNCHANGED call
  /\ GenerateFrame

\* partition_schema or write_linkml_schema, where an output path is given;
\* an error while writing is raised, with or without a file left behind
WriteOutput ==
  /\ pc = "write"
  /\ IF call.output_path
     THEN LET artifact == IF call.partition /\ call.has_classes
                          THEN "partitions" ELSE "schema"
          IN  \E wrote \in BOOLEAN, failed \in BOOLEAN :
                /\ call' = [call EXCEPT
                              !.written = IF wrote THEN @ \cup {artifact} ELSE @]
                /\ pc' = IF failed THEN ExceptClause ELSE "returned"
     ELSE UNCHANGED call /\ pc' = "returned"
  /\ GenerateFrame

NextGenerate ==
  \/ LoadSchema
  \/ ConvertToJson
  \/ WriteJsonSchema
  \/ ConvertSchema
  \/ WriteOutput

SpecGenerate == InitGenerate /\ [][NextGenerate]_vars

\* C13: when the source schema cannot be loaded or parsed (the file is
\* missing or is not valid XML), generate_linkml_schema raises the error to
\* its caller and writes nothing: no schema file, no partition file, no
\* intermediate JSON file.
C13_LoadErrorWritesNothing ==
  call.source \in {"missing", "invalid"} =>
    /\ call.written = {}
    /\ pc \in {"load", "raised"}

\* a call with an output path and a JSON path on a missing file has raised
C13_Witness ==
  /\ pc = "raised"
  /\ call.source = "missing"
  /\ call.output_path /\ call.json_output_path
  /\ call.written = {}

\* the annotation names of the slots a class has in the state are still there
\* in the next state
SlotAnnotationsKept(name) ==
  \A s \in DOMAIN classes[name].attributes :
    DOMAIN classes[name].attributes[s].annotations
      \subseteq DOMAIN classes'[name].attributes[s].annotations

\* a step of a population pass removes nothing
ModelGrows ==
  /\ \A name \in DOMAIN classes : ClassKept(name) /\ SlotAnnotationsKept(name)
  /\ DOMAIN enums \subseteq DOMAIN enums'

\* the members of class c recorded in a membership map
MembersIn(membership, c) ==
  IF c \in DOMAIN membership THEN membership[c] ELSE {}

\* the relaxation changes nothing but the required flag of choice members,
\* which it removes, and the multivalued flag of repeating-choice members,
\* which it sets
RelaxationFrame ==
  /\ enums' = enums
  /\ choice_slot_membership' = choice_slot_membership
  /\ choice_repeat_membership' = choice_repeat_membership
  /\ DOMAIN classes' = DOMAIN classes
  /\ \A c \in DOMAIN classes :
       /\ [classes'[c] EXCEPT !.attributes = classes[c].attributes] = classes[c]
       /\ DOMAIN classes'[c].attributes = DOMAIN classes[c].attributes
       /\ \A s \in DOMAIN classes[c].attributes :
            LET old == classes[c].attributes[s]
                new == classes'[c].attributes[s]
            IN  /\ [new EXCEPT !.required = old.required,
                               !.multivalued = old.multivalued] = old
                /\ new.required # old.required =>
                     s \in MembersIn(choice_slot_membership, c) /\ ~new.required
                /\ new.multivalued # old.multivalued =>
                     s \in MembersIn(choice_repeat_membership, c) /\ new.multivalued

\* C14: the target model only grows during a run: no pass removes a class, a
\* slot, an enumeration, an annotation or an exactly-one-of expression; the
\* relaxation pass alone takes something away, and it removes only the
\* required flag of choice-member slots and sets only the multivalued flag of
\* repeating-choice member slots, every other slot and field left as it was.
C14_ModelOnlyGrows ==
  [][IF pc = "relax" THEN RelaxationFrame ELSE ModelGrows]_vars

\* the relaxation has removed a required flag and set a multivalued flag in a
\* class that also holds a slot it had to leave alone
C14_Witness ==
  /\ pc = "done"
  /\ call.op = "relax_choice_constraints"
  /\ \E c \in DOMAIN classes :
       /\ \E s \in DOMAIN classes[c].attributes :
            /\ call.before.classes[c].attributes[s].required
            /\ ~classes[c].attributes[s].required
            /\ ~call.before.classes[c].attributes[s].multivalued
            /\ classes[c].attributes[s].multivalued
       /\ \E s \in DOMAIN classes[c].attributes :
            /\ classes[c].attributes[s].required
            /\ ~classes[c].attributes[s].multivalued

(***************************************************************************)
(* Merges one after another into one target: documentation metadata        *)
(* (apply_doc_metadata) and vendor-extension blocks                        *)
(* (apply_appinfo_metadata), in any order.  An appinfo node has a tag, a   *)
(* text and, for the wrapper xsdfu, children.                              *)
(***************************************************************************)
MaxMerges == 3

AppinfoNode(tag, text) == [tag |-> tag, text |-> text, children |-> <<>>]

\* record_appinfo_entry(target, node)
record_appinfo_entry(target, node) ==
  LET name == local_name(node.tag)
      value == IF Strip(node.text) # <<>> THEN Strip(node.text) ELSE <<"true">>
      annotations == target.annotations
      key == IF <<name>> \notin DOMAIN annotations THEN <<name>>
             ELSE <<name, "_", ToString(Cardinality(DOMAIN annotations))>>
  IN  [target EXCEPT
         !.annotations = Put(annotations, key, [tag |-> <<name>>, value |-> value])]

RECURSIVE RecordEntries(_, _)
\* record_appinfo_entry over a list of nodes
RecordEntries(target, nodes) ==
  IF nodes = <<>> THEN target
  ELSE RecordEntries(record_appinfo_entry(target, Head(nodes)), Tail(nodes))

\* the entries an appinfo block records: a node, or the children of xsdfu
RECURSIVE AppinfoEntries(_)
AppinfoEntries(nodes) ==
  IF nodes = <<>> THEN <<>>
  ELSE (IF local_name(Head(nodes).tag) = "xsdfu" THEN Head(nodes).children
        ELSE <<Head(nodes)>>) \o AppinfoEntries(Tail(nodes))

\* apply_appinfo_metadata(target, annotation), the annotation given as the
\* nodes of its appinfo blocks
apply_appinfo_metadata(target, nodes) ==
  RecordEntries(target, AppinfoEntries(nodes))

\* documentation texts and appinfo blocks with repeated keys and names
MergeLines ==
  { <<"SomeTag", "=", "foo">>,
    <<"SomeTag", "=", "bar", "=", "baz">>,
    <<"Other", " ", "Tag", "=", "x">> }

MergeTexts == UNION {[1..n -> MergeLines] : n \in 1..2}

MergeBlocks ==
  { << AppinfoNode("SomeTag", <<"v">>) >>,
    << AppinfoNode("Flag", <<>>), AppinfoNode("Flag", <<" ", "w">>) >>,
    << [tag |-> "xsdfu", text |-> <<>>,
        children |-> << AppinfoNode("Flag", <<"z">>),
                        AppinfoNode("SomeTag", <<>>) >>] >> }

\* the number of values a documentation text carries as metadata
MergedValues(doc_value) ==
  LET metadata == WithoutTier(split_doc_metadata(doc_value).metadata)
  IN  Len(Flatten([k \in 1..Len(metadata) |-> metadata[k].values]))

InitMerge ==
  /\ pc = "merge"
  /\ step = 0
  /\ xsd = NoSchema
  /\ classes = ("Sample" :> EmptyClass)
  /\ enums = EmptyMap
  /\ choice_slot_membership = EmptyMap
  /\ choice_repeat_membership = EmptyMap
  /\ inheritance_map = EmptyMap
  /\ known_class_names = {}
  /\ key_target_map = EmptyMap
  /\ call = NoCall

MergeFrame ==
  UNCHANGED <<pc, xsd, enums, choice_slot_membership, choice_repeat_membership,
              inheritance_map, known_class_names, key_target_map>>

MergeDocMetadata ==
  /\ pc = "merge" /\ step < MaxMerges
  /\ \E doc_value \in MergeTexts :
       /\ classes' = [classes EXCEPT !["Sample"] = apply_doc_metadata(@, doc_value)]
       /\ call' = [op |-> "apply_doc_metadata", values |-> MergedValues(doc_value)]
  /\ step' = step + 1
  /\ MergeFrame

MergeAppinfoMetadata ==
  /\ pc = "merge" /\ step < MaxMerges
  /\ \E nodes \in MergeBlocks :
       /\ classes' = [classes EXCEPT !["Sample"] = apply_appinfo_metadata(@, nodes)]
       /\ call' = [op |-> "apply_appinfo_metadata",
                   values |-> Len(AppinfoEntries(nodes))]
  /\ step' = step + 1
  /\ MergeFrame

NextMerge == MergeDocMetadata \/ MergeAppinfoMetadata

SpecMerge == InitMerge /\ [][NextMerge]_vars

\* C15: a merge of metadata into a target never overwrites an annotation:
\* over any sequence of documentation merges and vendor-extension merges,
\* every annotation entry there before a merge keeps its tag and its value,
\* and every merged value, repeated keys and repeated element names
\* included, lands under an annotation name of its own.
C15_MergeNeverOverwrites ==
  [][LET old == classes["Sample"].annotations
         new == classes'["Sample"].annotations
     IN  /\ \A k \in DOMAIN old : k \in DOMAIN new /\ new[k] = old[k]
         /\ Cardinality(DOMAIN new) = Cardinality(DOMAIN old) + call'.values]_vars

(***************************************************************************)
(* Tier metadata merged again and again into one target.                   *)
(***************************************************************************)
MaxTierMerges == 3

TierLines ==
  { <<"tier", " ", "=", " ", "1">>,
    <<"Tier", "=", "2", ",", "1", " ", "9">>,
    <<"tier", "=", "3", " ", "3">>,
    <<"tier", "=", "7">>,
    <<"SomeTag", "=", "2">> }

TierTexts == UNION {[1..n -> TierLines] : n \in 1..2}

InitTier ==
  /\ pc = "tier"
  /\ step = 0
  /\ xsd = NoSchema
  /\ classes = ("Sample" :> EmptyClass)
  /\ enums = EmptyMap
  /\ choice_slot_membership = EmptyMap
  /\ choice_repeat_membership = EmptyMap
  /\ inheritance_map = EmptyMap
  /\ known_class_names = {}
  /\ key_target_map = EmptyMap
  /\ call = NoCall

MergeTierMetadata ==
  /\ pc = "tier" /\ step < MaxTierMerges
  /\ \E doc_value \in TierTexts :
       /\ classes' = [classes EXCEPT !["Sample"] = apply_doc_metadata(@, doc_value)]
       /\ call' = [op |-> "apply_doc_metadata", doc_value |-> doc_value]
  /\ step' = step + 1
  /\ MergeFrame

NextTier == MergeTierMetadata

SpecTier == InitTier /\ [][NextTier]_vars

NoDuplicates(list) ==
  \A i, j \in 1..Len(list) : list[i] = list[j] => i = j

\* C16: tier metadata is merged idempotently: a merge appends to the subset
\* list the subset names of the tier tokens found in the lookup table that
\* are not in the list yet and nothing else, the list never has a duplicate
\* entry, and a text merged a second time leaves the list as the first merge
\* left it.
C16_TierMergeIdempotent ==
  /\ [](NoDuplicates(classes["Sample"].in_subset))
  /\ [][LET old == classes["Sample"].in_subset
            new == classes'["Sample"].in_subset
        IN  /\ Len(old) <= Len(new) /\ SubSeq(new, 1, Len(old)) = old
            /\ Range(new) = Range(old) \cup TierSubsetsOf(call'.doc_value)
            /\ (call # NoCall /\ call.doc_value = call'.doc_value) => new = old]_vars

\* after two merges or more, the last one of a text with a known tier token,
\* the list holds two subsets or more
C16_Witness ==
  /\ pc = "tier" /\ step >= 2
  /\ TierSubsetsOf(call.doc_value) # {}
  /\ TierSubsetsOf(call.doc_value) \subseteq Range(classes["Sample"].in_subset)
  /\ Len(classes["Sample"].in_subset) >= 2

(***************************************************************************)
(* The three ancestor walks of the resolver, one loop iteration a step.    *)
(* The state of a running loop (current, visited, ancestors) is kept in    *)
(* `call`; `done` says that the loop was left.  The inheritance data is    *)
(* any combination over a few names, cycles in is_a and in the inheritance *)
(* map included.                                                           *)
(***************************************************************************)
WalkUniverse == {"Base", "DerivedA", "SampleRef"}
WalkParents == WalkUniverse \cup {"Reference"}

WalkClassMaps ==
  UNION {[S -> {[EmptyClass EXCEPT !.is_a = p] : p \in WalkParents \cup {NONE}}]
         : S \in SUBSET WalkUniverse}

InitWalk ==
  /\ pc = "walk"
  /\ step = 0
  /\ xsd = NoSchema
  /\ enums = EmptyMap
  /\ choice_slot_membership = EmptyMap
  /\ choice_repeat_membership = EmptyMap
  /\ key_target_map = EmptyMap
  /\ call = NoCall
  /\ classes \in WalkClassMaps
  /\ inheritance_map \in InheritanceMaps(WalkUniverse)
  /\ known_class_names \in {{}, {"Sample"}}

Running == call # NoCall /\ ~call.done

\* class_is_ref_like up to the loop
StartClassIsRefLike ==
  /\ pc = "walk" /\ call = NoCall
  /\ \E class_name \in WalkParents \cup {NONE} :
       call' = [op |-> "class_is_ref_like", name |-> class_name,
                current |-> class_name, visited |-> {}, ancestors |-> <<>>,
                done |-> (class_name = NONE), result |-> FALSE]
  /\ ResolverFrame

\* one iteration of `while current:` without the test of the visited set
RefLikeIteration_unguarded(cls, imap, st) ==
  IF st.current = NONE THEN [st EXCEPT !.done = TRUE, !.result = FALSE]
  ELSE IF EndsWithRef(st.current) \/ st.current = "Reference"
       THEN [st EXCEPT !.done = TRUE, !.result = TRUE]
       ELSE [st EXCEPT !.visited = @ \cup {st.current},
                       !.current = BaseOf(cls, imap, st.current)]

\* one iteration of `while current:` in class_is_ref_like
RefLikeIteration(cls, imap, st) ==
  IF st.current = NONE THEN [st EXCEPT !.done = TRUE, !.result = FALSE]
  ELSE IF EndsWithRef(st.current) \/ st.current = "Reference"
       THEN [st EXCEPT !.done = TRUE, !.result = TRUE]
       ELSE IF st.current \in st.visited
            THEN [st EXCEPT !.done = TRUE, !.result = FALSE]
            ELSE [st EXCEPT !.visited = @ \cup {st.current},
                            !.current = BaseOf(cls, imap, st.current)]

StepClassIsRefLike ==
  /\ Running /\ call.op = "class_is_ref_like"
  /\ call' = RefLikeIteration(classes, inheritance_map, call)
  /\ ResolverFrame

\* reference_target_for_class up to the loop
StartReferenceTarget ==
  /\ pc = "walk" /\ call = NoCall
  /\ \E owner_class \in WalkUniverse :
       call' = [op |-> "reference_target_for_class", name |-> owner_class,
                current |-> owner_class, visited |-> {}, ancestors |-> <<>>,
                done |-> (EndsWithRef(owner_class)
                          /\ StripRef(owner_class) \in known_class_names),
                result |-> IF EndsWithRef(owner_class)
                              /\ StripRef(owner_class) \in known_class_names
                           THEN StripRef(owner_class) ELSE NONE]
  /\ ResolverFrame

\* one iteration of `while current:` in reference_target_for_class
StepReferenceTarget ==
  /\ Running /\ call.op = "reference_target_for_class"
  /\ LET current == call.current
         is_a == IF current \in DOMAIN classes THEN classes[current].is_a ELSE NONE
     IN  call' =
           IF current = NONE \/ current \in call.visited
           THEN [call EXCEPT !.done = TRUE]
           ELSE IF is_a # NONE /\ EndsWithRef(is_a)
                   /\ StripRef(is_a) \in known_class_names
                THEN [call EXCEPT !.done = TRUE, !.result = StripRef(is_a),
                                  !.visited = @ \cup {current}]
                ELSE [call EXCEPT !.visited = @ \cup {current},
                                  !.current = BaseOf(classes, inheritance_map, current)]
  /\ ResolverFrame

\* select_keyref_range at the walk of one candidate
StartKeyrefWalk ==
  /\ pc = "walk" /\ call = NoCall
  /\ \E cls_name \in WalkUniverse :
       call' = [op |-> "select_keyref_range", name |-> cls_name,
                current |-> cls_name, visited |-> {}, ancestors |-> <<>>,
                done |-> FALSE, result |-> NONE]
  /\ ResolverFrame

\* one iteration of `while current and current not in visited:`
StepKeyrefWalk ==
  /\ Running /\ call.op = "select_keyref_range"
  /\ call' =
       IF call.current = NONE \/ call.current \in call.visited
       THEN [call EXCEPT !.done = TRUE]
       ELSE [call EXCEPT !.ancestors = Append(@, call.current),
                         !.visited = @ \cup {call.current},
                         !.current = BaseOf(classes, inheritance_map, call.current)]
  /\ ResolverFrame

NextWalk ==
  \/ StartClassIsRefLike \/ StepClassIsRefLike
  \/ StartReferenceTarget \/ StepReferenceTarget
  \/ StartKeyrefWalk \/ StepKeyrefWalk

\* a loop that can take an iteration takes it
SpecWalk == InitWalk /\ [][NextWalk]_vars /\ WF_vars(NextWalk)

RefLikeName(name) == EndsWithRef(name) \/ name = "Reference"

\* C17: on any inheritance data, a cycle in is_a or in the inheritance map
\* included, class_is_ref_like ends, with true exactly when the class name
\* or the name of a class on its inheritance chain has the reference suffix
\* or is the reserved base name; the ancestor walks of
\* reference_target_for_class and select_keyref_range end on the same data.
C17_RefLikeTerminates ==
  /\ <>(call # NoCall /\ call.done)
  /\ [](call.op = "class_is_ref_like" /\ call.done =>
          /\ call.result = (call.name # NONE /\ \E x \in AncestorsOrSelf(call.name) :
                                                   RefLikeName(x))
          /\ call.result = class_is_ref_like(classes, inheritance_map, call.name))
  /\ [](call.op = "select_keyref_range" /\ call.done =>
          call.ancestors = AncestorWalk(classes, inheritance_map, call.name, {}, <<>>))

\* class_is_ref_like has ended on a cycle of two classes with false, or past
\* a class without the suffix on a class with it with true
C17_Witness ==
  /\ call.op = "class_is_ref_like" /\ call.done
  /\ \/ /\ call.name = "Base" /\ IsaParent("Base") = "DerivedA"
        /\ IsaParent("DerivedA") = "Base" /\ ~call.result
     \/ /\ call.name = "DerivedA" /\ IsaParent("DerivedA") = "Base"
        /\ IsaParent("Base") = "Reference" /\ call.result

(***************************************************************************)
(* The identity pass, for stating the claims: the constraint a round of    *)
(* the pass reads, the segment a path ends with, and the slot names of a   *)
(* constraint's field paths.                                               *)
(***************************************************************************)
CurrentIdentity == xsd.identities[step]

FinalSegment(path) ==
  LET segments == Segments(path)
  IN  IF segments = <<>> THEN NONE ELSE segments[Len(segments)]

FieldPaths(ident) == SelectSeq(ident.fields, LAMBDA path : path # <<>>)

FieldSlots(ident) ==
  LET paths == FieldPaths(ident)
  IN  [k \in 1..Len(paths) |-> local_name(StripAt(paths[k][Len(paths[k])]))]

\* the unique key `key` over `slots` is on class `c` after the step, and `c`
\* is among the classes mapped to `key`
KeyRegistered(c, key, slots) ==
  /\ c \in DOMAIN classes'
  /\ key \in DOMAIN classes'[c].unique_keys
  /\ classes'[c].unique_keys[key].unique_key_slots = slots
  /\ key \in DOMAIN key_target_map' /\ c \in key_target_map'[key]

IsKeyRound ==
  /\ pc = "identities"
  /\ CurrentIdentity.kind \in {"key", "unique"}
  /\ FieldPaths(CurrentIdentity) # <<>>

\* C18 as stated: for every Key or Unique with a field path and every
\* alternative of its selector, process_identities puts on the class named by
\* the alternative's final segment a unique key named after the constraint
\* over the field slot names in field order, and maps the constraint's name
\* to that class.
C18_KeyOnEveryAlternative ==
  [][IsKeyRound =>
       \A k \in 1..Len(CurrentIdentity.selector) :
          KeyRegistered(local_name(FinalSegment(CurrentIdentity.selector[k])),
                        local_name(CurrentIdentity.name),
                        FieldSlots(CurrentIdentity))]_vars

\* the alternatives that name a class: a final segment that is no wildcard
NamingAlternatives(ident) ==
  {k \in 1..Len(ident.selector) :
     FinalSegment(ident.selector[k]) \notin {NONE, "*"}}

\* C18, amended: the same for every alternative whose final segment names a
\* class; an alternative that ends with a wildcard or has no segment
\* registers nothing, and the constraint's name is mapped to the classes of
\* the naming alternatives and to no other new class.
C18_KeyOnEveryNamingAlternative ==
  [][IsKeyRound =>
       LET ident == CurrentIdentity
           key == local_name(ident.name)
           named == {local_name(FinalSegment(ident.selector[k])) :
                       k \in NamingAlternatives(ident)}
       IN  /\ \A c \in named : KeyRegistered(c, key, FieldSlots(ident))
           /\ named # {} =>
                key_target_map'[key] = TargetClasses(key_target_map, [refer |-> key])
                                         \cup named
           /\ named = {} => key_target_map' = key_target_map
           /\ \A c \in DOMAIN classes' \ named :
                /\ c \in DOMAIN classes
                /\ classes'[c].unique_keys = classes[c].unique_keys]_vars

\* the unique constraint over Sample | Channel | * is on both classes and
\* mapped to both
C18_Witness ==
  /\ call.op = "process_identities" /\ call.name = "AnyKey"
  /\ key_target_map["AnyKey"] = {"Sample", "Channel"}
  /\ classes["Sample"].unique_keys["AnyKey"].unique_key_slots = <<"ID">>
  /\ classes["Channel"].unique_keys["AnyKey"].unique_key_slots = <<"ID">>

IsKeyrefRound == pc = "identities" /\ CurrentIdentity.kind = "keyref"

\* the classes the key a keyref refers to is mapped to
ReferredClasses(ident) ==
  IF ident.refer # NONE /\ local_name(ident.refer) \in DOMAIN key_target_map
  THEN key_target_map[local_name(ident.refer)] ELSE {}

\* the targets a set of candidates resolves to: the candidate when it is the
\* only one, the nearest class common to the candidates' chains otherwise
ResolvedTargets(S) ==
  IF Cardinality(S) = 1 THEN S
  ELSE {r \in CommonAncestors(S) : \A x \in CommonAncestors(S) : x \in AncestorsOrSelf(r)}

\* the segment the selector of a keyref ends with
KeyrefSegment(ident) ==
  IF ident.selector = <<>> THEN NONE
  ELSE FinalSegment(ident.selector[Len(ident.selector)])

NothingChanges ==
  /\ classes' = classes /\ enums' = enums /\ key_target_map' = key_target_map
  /\ choice_slot_membership' = choice_slot_membership
  /\ choice_repeat_membership' = choice_repeat_membership

PassGoesOn ==
  \/ pc' = "identities" /\ step' = step + 1
  \/ pc' = "relax" /\ step = Len(xsd.identities)

SlotBefore(c, slot_name) ==
  IF c \in DOMAIN classes /\ slot_name \in DOMAIN classes[c].attributes
  THEN classes[c].attributes[slot_name] ELSE EmptySlot

MaxLocalIdentities == 2

LocalIdentityChoices ==
  { Identity("key", "RootKey", NONE, << <<".", "X">> >>, << <<"@id">> >>),
    Identity("unique", "{ome}Image", NONE,
             << <<"Sample">>, <<"Channel">> >>, << <<"@ID">>, <<"name">> >>),
    Identity("keyref", "RootRef", "RootKey", << <<"Y">> >>, << <<"@ref">>, <<>> >>),
    Identity("key", "AnyKey", NONE, <<>>, <<>>) }

FilledClass ==
  [EmptyClass EXCEPT
     !.attributes = ("id" :> [EmptySlot EXCEPT !.range = "string"]),
     !.exactly_one_of = <<SlotExpr("weight"), SlotExpr("volume")>>,
     !.unique_keys = ("RootKey" :> [unique_key_slots |-> <<"id">>]),
     !.annotations = (<<"SomeTag">> :> [tag |-> <<"SomeTag">>, value |-> <<"foo">>])]

LocalClassMaps ==
  { EmptyMap, "Root" :> EmptyClass, "Root" :> FilledClass,
    ("Root" :> FilledClass) @@ ("Sample" :> EmptyClass) }

InitLocal ==
  /\ pc = "local"
  /\ step = 0
  /\ xsd = NoSchema
  /\ classes \in LocalClassMaps
  /\ enums = EmptyMap
  /\ choice_slot_membership = EmptyMap
  /\ choice_repeat_membership = EmptyMap
  /\ inheritance_map = EmptyMap
  /\ known_class_names = {}
  /\ key_target_map = EmptyMap
  /\ call = NoCall

CallApplyLocalIdentities ==
  /\ pc = "local" /\ call = NoCall
  /\ \E class_name \in {"Root", "Sample"},
        local_ids \in ListsOf(LocalIdentityChoices, MaxLocalIdentities) :
       /\ Commit(apply_local_identities(
                   Model, class_name,
                   [Element(class_name, String, 1, 1) EXCEPT !.identities = local_ids]))
       /\ call' = [op |-> "apply_local_identities", class_name |-> class_name,
                   identities |-> local_ids, before |-> Model]
  /\ UNCHANGED <<pc, step, xsd, inheritance_map, known_class_names, key_target_map>>

NextLocal == CallApplyLocalIdentities

SpecLocal == InitLocal /\ [][NextLocal]_vars

\* the class as the call found it, an empty class when it was not there
ClassBefore(c) ==
  IF c \in DOMAIN call.before.classes THEN call.before.classes[c] ELSE EmptyClass

\* C20: apply_local_identities adds no unique key, no slot and no
\* exactly-one-of constraint to the model, and for every identity constraint
\* declared inside the element the element's class has afterwards an
\* annotation with the constraint's kind, selector path and field paths as
\* declared.
C20_LocalIdentitiesAnnotated ==
  call.op = "apply_local_identities" =>
    /\ DOMAIN call.before.classes \subseteq DOMAIN classes
    /\ \A c \in DOMAIN classes :
         /\ classes[c].attributes = ClassBefore(c).attributes
         /\ classes[c].unique_keys = ClassBefore(c).unique_keys
         /\ classes[c].exactly_one_of = ClassBefore(c).exactly_one_of
    /\ enums = call.before.enums
    /\ choice_slot_membership = call.before.choice_slot_membership
    /\ choice_repeat_membership = call.before.choice_repeat_membership
    /\ \A k \in 1..Len(call.identities) :
         /\ call.class_name \in DOMAIN classes
         /\ \E a \in DOMAIN classes[call.class_name].annotations :
              LET ann == classes[call.class_name].annotations[a]
              IN  /\ ann.tag = <<"local_identity">>
                  /\ ann.value = [type |-> call.identities[k].kind,
                                  selector |-> call.identities[k].selector,
                                  fields |-> call.identities[k].fields]

\* two constraints of an element are on a class that had a slot, a unique
\* key and a constraint before
C20_Witness ==
  /\ call.op = "apply_local_identities" /\ Len(call.identities) = 2
  /\ call.class_name = "Root" /\ "Root" \in DOMAIN call.before.classes
  /\ call.before.classes["Root"] = FilledClass
  /\ Cardinality(DOMAIN classes["Root"].annotations) = 3

(***************************************************************************)
(* The slot builder on its own: one attribute or one child element is      *)
(* given to it, for an owner class that is reference-like by its name, by  *)
(* its parent, or not at all, with the target known or not.                *)
(***************************************************************************)
SlotOwners == {"Image", "ImageRef", "Holder"}

SlotClassMaps ==
  {EmptyMap} \cup
  {"Holder" :> [EmptyClass EXCEPT !.is_a = p] : p \in {NONE, "ImageRef", "Reference"}}

AttributeNames == {"id", "ID", "kind", "ref"}

\* declared types: none, built-in, restrictions one and two steps from a
\* built-in, an unknown name without a base, enumerations, names with the
\* identifier suffix and with the reference suffix
Percent == SimpleType("Percent", SimpleType(NONE, Float, <<>>, NONE), <<>>, NONE)

AttributeTypes ==
  { NoType, String, Builtin("int"), Percent, ImageID, Kind,
    SimpleType("Custom", NoType, <<>>, NONE),
    SimpleType("SampleID", Builtin("int"), <<"a", "b">>, NONE),
    SimpleType("SampleRef", String, <<>>, NONE) }

\* the global elements a child may refer to: one of a named complex type,
\* one with a complex type declared inside it
SlotGlobals ==
  << Element("Sample", ComplexType("Sample", NONE, <<>>, NoContent), 1, 1),
     Element("Root", ComplexType(NONE, NONE,
                                 << Attribute("name", "optional", String) >>,
                                 NoContent), 1, 1) >>

\* children by what decides their range: a reference, a named complex type,
\* a complex type declared inside, simple types, no type, no name
ChildShapes ==
  { ElementRef("Sample", 1, 1),
    ElementRef("Root", 1, 1),
    Element("Channel", ComplexType("Sample", NONE, <<>>, NoContent), 1, 1),
    Element("Detail", ComplexType(NONE, NONE,
                                  << Attribute("name", "required", String) >>,
                                  NoContent), 1, 1),
    Element("tag", String, 1, 1),
    Element("weight", Percent, 1, 1),
    Element("date", SimpleType(NONE, Builtin("date"), <<>>, NONE), 1, 1),
    Element("bare", NoType, 1, 1),
    Element(NONE, String, 1, 1) }

\* the largest explicit occurrence count of a child
MaxCount == 2

Occurrences ==
  {o \in (0..MaxCount) \X ((0..MaxCount) \cup {Unbounded}) :
     o[2] = Unbounded \/ o[1] <= o[2]}

InitSlot ==
  /\ pc = "slot"
  /\ step = 0
  /\ xsd = [NoSchema EXCEPT !.elements = SlotGlobals]
  /\ classes \in SlotClassMaps
  /\ enums = EmptyMap
  /\ choice_slot_membership = EmptyMap
  /\ choice_repeat_membership = EmptyMap
  /\ inheritance_map = EmptyMap
  /\ known_class_names \in KnownChoices
  /\ key_target_map = EmptyMap
  /\ call = NoCall

CallSlotFromAttribute ==
  /\ pc = "slot" /\ call = NoCall
  /\ \E owner_class \in SlotOwners, attr_name \in AttributeNames,
        attr_type \in AttributeTypes, use \in {"required", "optional"} :
       LET attr_obj == Attribute(attr_name, use, attr_type)
           built == slot_from_attribute(Model, owner_class, attr_name, attr_obj)
       IN  /\ Commit(built.M)
           /\ call' = [op |-> "slot_from_attribute", owner_class |-> owner_class,
                       attr_name |-> attr_name, attr_obj |-> attr_obj,
                       slot |-> built.slot]
  /\ UNCHANGED <<pc, step, xsd, inheritance_map, known_class_names, key_target_map>>

CallAddChildElement ==
  /\ pc = "slot" /\ call = NoCall
  /\ \E parent_class \in {"Image", "Holder"}, shape \in ChildShapes,
        occurs \in Occurrences :
       LET child == [shape EXCEPT !.min_occurs = occurs[1], !.max_occurs = occurs[2]]
       IN  /\ Commit(add_child_element(Model, parent_class, child))
           /\ call' = [op |-> "add_child_element", parent_class |-> parent_class,
                       child |-> child, before |-> Model,
                       built |-> build_child_element_slot(parent_class, child)]
  /\ UNCHANGED <<pc, step, xsd, inheritance_map, known_class_names, key_target_map>>

NextSlot == CallSlotFromAttribute \/ CallAddChildElement

SpecSlot == InitSlot /\ [][NextSlot]_vars

(***************************************************************************)
(* What the slot of an attribute is expected to be, for stating the claims. *)
(***************************************************************************)
RECURSIVE BaseChain(_)
\* a type and the types it restricts, nearest first
BaseChain(type) ==
  IF type.kind = "none" THEN <<>> ELSE <<type>> \o BaseChain(type.base_type)

\* the mapping of the first type of the chain with a known primitive name
FirstKnownPrimitive(type) ==
  LET chain == BaseChain(type)
      known == {k \in 1..Len(chain) :
                  /\ chain[k].name # NONE
                  /\ local_name(chain[k].name) \in DOMAIN XSD_TO_LINKML_TYPE_MAP}
  IN  IF known = {} THEN "string"
      ELSE XSD_TO_LINKML_TYPE_MAP[
             local_name(chain[CHOOSE k \in known : \A j \in known : k <= j].name)]

DeclaredTypeName(attr_obj) ==
  IF attr_obj.type.kind = "none" THEN NONE ELSE local_name(attr_obj.type.name)

HasEnumeration(attr_obj) ==
  attr_obj.type.kind # "none" /\ attr_obj.type.enumeration # <<>>

RefLikeClass(c) == \E x \in AncestorsOrSelf(c) : RefLikeName(x)

\* the reference target of the called attribute's owner, NONE without one
AttributeTarget ==
  IF RefLikeClass(call.owner_class)
  THEN ExpectedReferenceTarget(call.owner_class, DeclaredTypeName(call.attr_obj))
  ELSE NONE

\* C21 as stated: the range of an attribute named id of a reference-like
\* owner with a reference target is that target; otherwise it is the
\* enumeration made for (owner class, attribute name) when the type has
\* enumerated values, and otherwise the primitive of the first type with a
\* known name on the restriction chain, string by default.
C21_AttributeRangeOrder ==
  call.op = "slot_from_attribute" =>
    call.slot.range =
      IF call.attr_name = "id" /\ AttributeTarget # NONE THEN AttributeTarget
      ELSE IF HasEnumeration(call.attr_obj)
      THEN sanitize_enum_name(call.owner_class, call.attr_name)
      ELSE FirstKnownPrimitive(call.attr_obj.type)

\* C21, amended: the name is compared without regard to case, and the
\* enumeration of the type, when it has one, is the range whatever the name
\* and the owner are.
C21_AttributeRangeEnumFirst ==
  call.op = "slot_from_attribute" =>
    /\ call.slot.range =
         IF HasEnumeration(call.attr_obj)
         THEN sanitize_enum_name(call.owner_class, call.attr_name)
         ELSE IF call.attr_name \in {"id", "ID", "Id"} /\ AttributeTarget # NONE
         THEN AttributeTarget
         ELSE FirstKnownPrimitive(call.attr_obj.type)
    /\ HasEnumeration(call.attr_obj) =>
         /\ call.slot.range \in DOMAIN enums
         /\ enums[call.slot.range].permissible_values =
              Range(call.attr_obj.type.enumeration)

\* the attribute ID of a class whose parent is ImageRef has range Image
C21_Witness ==
  /\ call.op = "slot_from_attribute"
  /\ call.owner_class = "Holder" /\ call.attr_name = "ID"
  /\ IsaParent("Holder") = "ImageRef" /\ "Image" \in known_class_names
  /\ call.attr_obj.type = ImageID
  /\ call.slot.range = "Image"

\* C22 as stated: the slot of an attribute is an identifier exactly when the
\* attribute is named id or the local name of its declared type ends with
\* the reference suffix.
C22_IdentifierByReferenceSuffix ==
  call.op = "slot_from_attribute" =>
    call.slot.identifier =
      (call.attr_name = "id" \/ EndsWithRef(DeclaredTypeName(call.attr_obj)))

\* C22, amended: the suffix that counts is the identifier suffix of the
\* declared type's local name, and the name id counts in any letter case.
C22_IdentifierByIdentifierSuffix ==
  call.op = "slot_from_attribute" =>
    call.slot.identifier =
      (call.attr_name \in {"id", "ID", "Id"}
       \/ EndsWithID(DeclaredTypeName(call.attr_obj)))

\* an attribute with another name is an identifier through its type ImageID
C22_Witness ==
  /\ call.op = "slot_from_attribute"
  /\ call.attr_name = "ref" /\ call.attr_obj.type = ImageID
  /\ call.slot.identifier

(***************************************************************************)
(* What a child element is expected to give, for stating the claims.       *)
(***************************************************************************)
CalledChildName == local_name(call.child.name)

\* the type of the called child is a complex type declared inside it
AnonymousComplex(child) ==
  ElementType(child).kind = "complex" /\ ElementType(child).name = NONE

ExpectedChildRange(child) ==
  IF child.ref # NONE THEN local_name(child.ref)
  ELSE IF ElementType(child).kind = "complex" /\ ElementType(child).name # NONE
  THEN local_name(ElementType(child).name)
  ELSE IF AnonymousComplex(child) THEN local_name(child.name)
  ELSE FirstKnownPrimitive(ElementType(child))

\* a class under the child's name that the call made and filled
PopulatedUnderChildName ==
  /\ CalledChildName \in DOMAIN classes
  /\ CalledChildName \notin DOMAIN call.before.classes
  /\ classes[CalledChildName] # EmptyClass

\* C23: the range of a child is the name of the element it refers to, else
\* its named complex type, else its own name for a complex type declared
\* inside it, else the primitive of its simple type; a class is populated
\* under the child's name only for a complex type declared inside it; a
\* child without a name gives no slot.
C23_ChildRangeRules ==
  call.op = "add_child_element" =>
    /\ CalledChildName = NONE =>
         /\ ~call.built.ok
         /\ classes = call.before.classes
    /\ CalledChildName # NONE =>
         /\ call.built.ok
         /\ call.built.slot_def.range = ExpectedChildRange(call.child)
         /\ CalledChildName \in DOMAIN classes[call.parent_class].attributes
         /\ classes[call.parent_class].attributes[CalledChildName].range =
              ExpectedChildRange(call.child)
         /\ PopulatedUnderChildName => AnonymousComplex(call.child)
         /\ (AnonymousComplex(call.child) /\ call.child.ref = NONE) =>
              PopulatedUnderChildName

\* C24: the slot of a child is required exactly when the child's minimum
\* occurrence is 1 or more, and multivalued exactly when its maximum is
\* unbounded or a count above one; minimum 0 with maximum 1 gives neither.
C24_ChildMultiplicity ==
  (call.op = "add_child_element" /\ call.built.ok) =>
    LET slot == classes[call.parent_class].attributes[CalledChildName]
        mino == call.child.min_occurs
        maxo == call.child.max_occurs
    IN  /\ slot.required = (mino >= 1)
        /\ slot.multivalued = (maxo = Unbounded \/ maxo > 1)
        /\ slot.required = call.built.slot_def.required
        /\ slot.multivalued = call.built.slot_def.multivalued
        /\ (mino = 0 /\ maxo = 1) => ~slot.required /\ ~slot.multivalued

\* a child that may be left out and may occur twice: multivalued only
C24_Witness ==
  /\ call.op = "add_child_element" /\ call.built.ok
  /\ call.child.min_occurs = 0 /\ call.child.max_occurs = 2
  /\ classes[call.parent_class].attributes[CalledChildName].multivalued
  /\ ~classes[call.parent_class].attributes[CalledChildName].required

\* the choice groups that are items of a choice group
InnerChoices(group) ==
  {item \in Range(group.items) : item.kind = "group" /\ item.model = "choice"}

\* C25: collect_choice_constraints finds every choice group of a content
\* model at any depth (the content itself, a choice in it, a choice inside
\* other sequence or all groups), so after the pass the slots of every
\* choice of two or more branches are choice members of the type's class;
\* and the branches of a choice inside a choice are branches of the outer
\* choice.
C25_EveryChoiceDetected ==
  pc \in {"relax", "done"} =>
    \A t \in Range(complex_types(xsd)) :
      \A g \in ChoicesOf(t) :
        /\ Len(extract_choice_branches(g)) >= 2 =>
             /\ local_name(t.name) \in DOMAIN choice_slot_membership
             /\ ChoiceSlotNames(g) \subseteq choice_slot_membership[local_name(t.name)]
        /\ \A h \in InnerChoices(g) :
             Range(extract_choice_branches(h)) \subseteq Range(extract_choice_branches(g))


(***************************************************************************)
(* A choice with a branch of several slots                                  *)
(***************************************************************************)
HasMultiSlotBranch(branches) ==
  /\ Len(branches) >= 2
  /\ \E b \in Range(branches) : Cardinality(BranchSlotNames(b)) > 1

BranchUniverse(branches) == UNION {BranchSlotNames(b) : b \in Range(branches)}

MembersOf(membership, class_name) ==
  IF class_name \in DOMAIN membership THEN membership[class_name] ELSE {}

\* the class of the call holding the slots `names`, each required and single-valued
PopulatedWith(M, class_name, names) ==
  [M EXCEPT !.classes[class_name].attributes =
     [s \in names |-> [EmptySlot EXCEPT !.required = TRUE]]]

\* the slots of the class of the call after the relaxation pass on the current records
RelaxedSlots ==
  relax_choice_constraints(PopulatedWith(Model, call.class_name, {"A", "B", "C"}))
    .classes[call.class_name].attributes

\* C26: after apply_choice_constraint on a choice of two or more branches, one
\* of which has more than one slot, the class's exactly-one-of list is as
\* before the call, every slot of every branch is a choice member of the class
\* (and a repeating-choice member exactly when the call says the choice
\* repeats, nothing being added to the repeating members otherwise), and the
\* relaxation pass makes each of these slots optional, and multivalued when the
\* choice repeats, as it does for the members of a single-slot choice.
C26_MultiSlotChoiceRecorded ==
  (call.op = "apply_choice_constraint" /\ HasMultiSlotBranch(call.branches)) =>
    LET D == BranchUniverse(call.branches)
        c == call.class_name
    IN  /\ c \in DOMAIN classes
        /\ ExactlyOneOf(c) = ExactlyOneOfBefore
        /\ MembersOf(choice_slot_membership, c)
             = MembersOf(call.before.choice_slot_membership, c) \cup D
        /\ MembersOf(choice_repeat_membership, c)
             = MembersOf(call.before.choice_repeat_membership, c)
                 \cup (IF call.repeating THEN D ELSE {})
        /\ \A s \in DOMAIN RelaxedSlots :
             /\ RelaxedSlots[s].required = (s \notin MembersOf(choice_slot_membership, c))
             /\ RelaxedSlots[s].multivalued = (s \in MembersOf(choice_repeat_membership, c))
        /\ \A s \in D :
             /\ ~RelaxedSlots[s].required
             /\ call.repeating => RelaxedSlots[s].multivalued

\* a repeating choice (A, B) | C applied to a class without choice records
C26_Witness ==
  /\ call.op = "apply_choice_constraint"
  /\ call.branches = << << <<"A", TRUE>>, <<"B", TRUE>> >>, << <<"C", TRUE>> >> >>
  /\ call.repeating
  /\ call.before.choice_slot_membership = EmptyMap
  /\ ExactlyOneOf("Sample") = <<>>
  /\ choice_repeat_membership["Sample"] = {"A", "B", "C"}


(***************************************************************************)
(* The candidate set of select_keyref_range in every order                  *)
(***************************************************************************)
\* no class is its own proper ancestor
AcyclicInheritance ==
  \A c \in AncestorUniverse :
    IsaParent(c) # NONE => c \notin AncestorsOrSelf(IsaParent(c))

\* C27: when no class of the inheritance data is its own ancestor, the result
\* of select_keyref_range for a set of two or more candidates is the same for
\* every order in which the set is enumerated, and a result other than none
\* is an ancestor-or-self of every candidate of the set.
C27_KeyrefRangeOrderIndependent ==
  ( /\ call.op = "select_keyref_range"
    /\ Cardinality(Range(call.order)) >= 2
    /\ AcyclicInheritance ) =>
    /\ \A order \in Enumerations(Range(call.order)) :
         select_keyref_range(classes, inheritance_map, order) = call.result
    /\ call.result # NONE =>
         \A c \in Range(call.order) : call.result \in AncestorsOrSelf(c)

\* DerivedB under DerivedA under Base, all three candidates, DerivedB first
C27_Witness ==
  /\ call.op = "select_keyref_range"
  /\ call.order = <<"DerivedB", "Base", "DerivedA">>
  /\ AcyclicInheritance
  /\ IsaParent("DerivedB") = "DerivedA" /\ IsaParent("DerivedA") = "Base"
  /\ call.result = "Base"


(***************************************************************************)
(* A keyref and the keys visited before it                                  *)
(***************************************************************************)
\* the classes the Key/Unique constraints named `key` and visited before
\* round k have been registered on
EarlierKeyClasses(k, key) ==
  UNION { {local_name(FinalSegment(xsd.identities[j].selector[a])) :
             a \in NamingAlternatives(xsd.identities[j])}
          : j \in {i \in 1..(k - 1) :
                     /\ xsd.identities[i].kind \in {"key", "unique"}
                     /\ local_name(xsd.identities[i].name) = key
                     /\ FieldPaths(xsd.identities[i]) # <<>>} }

GrowsOnly(before, after) ==
  /\ DOMAIN before \subseteq DOMAIN after
  /\ \A key \in DOMAIN before : before[key] \subseteq after[key]

\* C28: in every round of process_identities the mapping from constraint
\* names to classes holds what the Key/Unique constraints visited before the
\* round have registered and no more, and a round only adds to it.  A keyref
\* whose key has not been visited before it (the key comes later in the list,
\* or not at all) changes nothing, the round of the key that follows gives no
\* class a new slot, and a keyref whose key was visited before it puts a slot
\* for every referenced field on the class of its selector, with the resolved
\* target as range when the class did not have the slot.
C28_KeyrefSeesEarlierKeysOnly ==
  [][pc = "identities" =>
       LET ident == CurrentIdentity
           refer_key == local_name(ident.refer)
           earlier == EarlierKeyClasses(step, refer_key)
           targets == ResolvedTargets(earlier)
           source_class == local_name(KeyrefSegment(ident))
       IN  /\ GrowsOnly(key_target_map, key_target_map')
           /\ ident.kind = "keyref" =>
                /\ ReferredClasses(ident) = earlier
                /\ key_target_map' = key_target_map
           /\ (ident.kind = "keyref" /\ earlier = {}) => NothingChanges
           /\ ( /\ ident.kind = "keyref" /\ earlier # {} /\ targets # {}
                /\ KeyrefSegment(ident) \notin {NONE, "*"} )
              => \A slot_name \in Range(FieldSlots(ident)) :
                   /\ source_class \in DOMAIN classes'
                   /\ slot_name \in DOMAIN classes'[source_class].attributes
                   /\ SlotBefore(source_class, slot_name) = EmptySlot =>
                        classes'[source_class].attributes[slot_name].range \in targets
           /\ ident.kind \in {"key", "unique"} =>
                \A c \in DOMAIN classes :
                  /\ c \in DOMAIN classes'
                  /\ classes'[c].attributes = classes[c].attributes]_vars

\* the keyref to ImageKey was visited first and the key after it: the key is
\* registered on Image, and the class of the keyref's selector has no slot
\* that refers to Image
C28_Witness ==
  /\ pc = "relax"
  /\ Len(xsd.identities) = 2
  /\ xsd.identities[1].kind = "keyref" /\ xsd.identities[2].kind = "key"
  /\ local_name(xsd.identities[1].refer) = local_name(xsd.identities[2].name)
  /\ "ImageKey" \in DOMAIN key_target_map /\ key_target_map["ImageKey"] = {"Image"}
  /\ \A c \in DOMAIN classes : \A s \in DOMAIN classes[c].attributes :
       <<"references", "_", "Image">> \notin DOMAIN classes[c].attributes[s].annotations


(***************************************************************************)
(* The pass over the complex types on its own: the named complex types of  *)
(* a schema in every order, among them a base, two types derived from it,  *)
(* and types with a child whose range is the base.                         *)
(***************************************************************************)
MaxPassTypes == 3

\* a type with a child of the type Reference
HolderType ==
  ComplexType("Holder", NONE, <<>>,
    Group("sequence", 1, 1, << Element("Reference", ReferenceType, 0, 1) >>))

\* a type derived from Reference with a child of the type Reference
NodeType ==
  ComplexType("Node", "Reference", <<>>,
    Group("sequence", 1, 1, << Element("Reference", ReferenceType, 0, Unbounded) >>))

PassTypeChoices == {ReferenceType, ImageRefType, HolderType, NodeType, ImageID}

InitTypes ==
  /\ \E types \in ListsOf(PassTypeChoices, MaxPassTypes) :
       /\ complex_types([NoSchema EXCEPT !.types = types]) # <<>>
       /\ WellFormed([NoSchema EXCEPT !.types = types])
       /\ xsd = [NoSchema EXCEPT !.types = types]
  /\ pc = "types"
  /\ step = 1
  /\ classes = EmptyMap
  /\ enums = EmptyMap
  /\ choice_slot_membership = EmptyMap
  /\ choice_repeat_membership = EmptyMap
  /\ inheritance_map = InheritanceMapOf(xsd)
  /\ known_class_names = KnownClassNamesOf(xsd)
  /\ key_target_map = EmptyMap
  /\ call = NoCall

NextTypes == ProcessComplexTypes

SpecTypes == InitTypes /\ [][NextTypes]_vars

\* the ranges of the children of a type that name a class
ChildRangeClasses(type_def) ==
  {build_child_element_slot(local_name(type_def.name), child).child_range :
     child \in Range(ContentChildren(TypeContent(type_def)))} \ (PRIMITIVE_RANGES \cup {NONE})

IsaOf(cls_map, c) == IF c \in DOMAIN cls_map THEN cls_map[c].is_a ELSE NONE

\* C29: the round of process_complex_types that visits the named complex type
\* T sets is_a of T to its inheritance-map base B exactly when B is a class
\* by then: B was visited in an earlier round, or was made earlier as the
\* class of a child's range; otherwise T gets no parent in this round.  No
\* round changes the parent of a class other than the one it visits, so an
\* edge skipped because B did not exist is not added when B's class is made
\* later in the pass.
C29_ParentOnlyWhenBaseExists ==
  [][pc = "types" =>
       LET type_def == complex_types(xsd)[step]
           T == local_name(type_def.name)
           B == Get(inheritance_map, T)
           exists == B \in DOMAIN classes \/ B \in ChildRangeClasses(type_def)
       IN  /\ T \in DOMAIN classes'
           /\ (B # NONE /\ exists) => classes'[T].is_a = B
           /\ (B = NONE \/ ~exists) => classes'[T].is_a = IsaOf(classes, T)
           /\ IsaOf(classes, T) = NONE
           /\ \A c \in DOMAIN classes' \ {T} : classes'[c].is_a = IsaOf(classes, c)]_vars

\* ImageRef was visited before its base Reference: both are classes at the
\* end of the pass and ImageRef has no parent
C29_Witness ==
  /\ pc = "relax"
  /\ {"ImageRef", "Reference"} \subseteq DOMAIN classes
  /\ inheritance_map["ImageRef"] = "Reference"
  /\ classes["ImageRef"].is_a = NONE
  /\ classes["Reference"].is_a = NONE


(***************************************************************************)
(* Several choices applied to one class, one call after the other           *)
(***************************************************************************)
MaxCalls == 3

\* the branch lists of the calls: none, one branch, A | B, C | D, B | A,
\* A | C | A, a branch of two slots, and B | D
SequenceBranchLists ==
  { <<>>,
    << << <<"A", TRUE>> >> >>,
    << << <<"A", TRUE>> >>, << <<"B", FALSE>> >> >>,
    << << <<"C", TRUE>> >>, << <<"D", TRUE>> >> >>,
    << << <<"B", TRUE>> >>, << <<"A", TRUE>> >> >>,
    << << <<"A", TRUE>> >>, << <<"C", FALSE>> >>, << <<"A", FALSE>> >> >>,
    << << <<"A", TRUE>>, <<"B", TRUE>> >>, << <<"C", TRUE>> >> >>,
    << << <<"B", TRUE>> >>, << <<"D", FALSE>> >> >> }

InitSequence ==
  /\ pc = "choice"
  /\ step = 0
  /\ xsd = NoSchema
  /\ enums = EmptyMap
  /\ classes \in {EmptyMap, "Sample" :> EmptyClass}
  /\ choice_slot_membership = EmptyMap
  /\ choice_repeat_membership = EmptyMap
  /\ inheritance_map = EmptyMap
  /\ known_class_names = {}
  /\ key_target_map = EmptyMap
  /\ call = [op |-> "apply_choice_constraints", class_name |-> "Sample",
             applied |-> <<>>, before |-> Model]

CallApplyChoiceConstraintAgain ==
  /\ pc = "choice" /\ call.op = "apply_choice_constraints"
  /\ Len(call.applied) < MaxCalls
  /\ \E branches \in SequenceBranchLists, repeating \in BOOLEAN :
       /\ Commit(apply_choice_constraint(Model, "Sample", branches, repeating))
       /\ call' = [call EXCEPT !.applied = Append(@, branches), !.before = Model]
  /\ UNCHANGED <<pc, step, xsd, inheritance_map, known_class_names, key_target_map>>

NextSequence == CallApplyChoiceConstraintAgain

SpecSequence == InitSequence /\ [][NextSequence]_vars

RECURSIVE SingleSlotChoiceSlots(_)
\* the slots of the single-slot choices among the calls, call after call and
\* branch after branch
SingleSlotChoiceSlots(applied) ==
  IF applied = <<>> THEN <<>>
  ELSE LET branches == Head(applied)
       IN  (IF AllSingleSlot(branches)
            THEN [k \in 1..Len(branches) |->
                    CHOOSE s \in BranchSlotNames(branches[k]) : TRUE]
            ELSE <<>>) \o SingleSlotChoiceSlots(Tail(applied))

\* the positions of a sequence where its value occurs for the first time
FirstOccurrences(seq) ==
  {k \in 1..Len(seq) : \A j \in 1..(k - 1) : seq[j] # seq[k]}

\* C30: after any sequence of apply_choice_constraint calls on one class its
\* exactly-one-of list is one flat list without duplicates that holds, in the
\* order of their first application, one expression for every slot of every
\* single-slot choice applied so far (A | B and then C | D give the one list
\* A, B, C, D), and a call with fewer than two branches changes neither the
\* classes nor the recorded choice memberships.
C30_OneFlatExactlyOneOfList ==
  call.op = "apply_choice_constraints" =>
    LET slots == SingleSlotChoiceSlots(call.applied)
        first == FirstOccurrences(slots)
        eo == ExactlyOneOf("Sample")
    IN  /\ Len(eo) = Cardinality(first)
        /\ \A k \in 1..Len(eo) :
             \E p \in first :
               /\ eo[k] = RequireSlot(slots[p])
               /\ Cardinality({q \in first : q < p}) = k - 1
        /\ \A i, j \in 1..Len(eo) : i # j => eo[i] # eo[j]
        /\ ( call.applied # <<>> /\ Len(call.applied[Len(call.applied)]) < 2 )
             => Model = call.before

\* A | B and then C | D: the second call finds the two expressions of the
\* first and adds its own two to the same list
C30_Witness ==
  /\ call.op = "apply_choice_constraints"
  /\ call.before.classes # EmptyMap
  /\ Len(call.applied) = 2
  /\ call.applied[1] = << << <<"A", TRUE>> >>, << <<"B", FALSE>> >> >>
  /\ call.applied[2] = << << <<"C", TRUE>> >>, << <<"D", TRUE>> >> >>
  /\ Len(call.before.classes["Sample"].exactly_one_of) = 2
  /\ ExactlyOneOf("Sample")
       = <<RequireSlot("A"), RequireSlot("B"), RequireSlot("C"), RequireSlot("D")>>

====
